---- MODULE Spec2Model ----
(***************************************************************************)
(* Duplicate detection of kuviki/ex-manga-deduplication:                   *)
(* Scanner._detect_duplicates and Scanner._persist_index                   *)
(* (src/src/core/scanner.py), run repeatedly over a small catalogue of     *)
(* comics with the match index file "index.db" kept between the runs.      *)
(*                                                                         *)
(* A fingerprint has two forms, as in the code: the hex string that        *)
(* ImageHasher.calculate_hash returns (here a sequence of hex digits) and  *)
(* the packed unsigned integer used for XOR/popcount.  A comic's cache key *)
(* (md5 of path:mtime:algorithm) is represented by the comic's identity.   *)
(***************************************************************************)
EXTENDS Naturals, Integers, Sequences, FiniteSets, TLC

\* ------------------------------------------------------------------ bounds
\* Number of scans of the same directory, one after the other.
MaxRuns == 2
\* Bytes of a fingerprint (8 in the program: a 64-bit hash).
HashBytes == 1

\* ---------------------------------------------------------------- helpers
Range(s) == {s[k] : k \in DOMAIN s}

Min2(a, b) == IF a <= b THEN a ELSE b

RECURSIVE Pow(_, _)
Pow(b, e) == IF e = 0 THEN 1 ELSE b * Pow(b, e - 1)

\* ------------------------------------------------------------ fingerprints
RECURSIVE HexDigits(_, _)
\* The k-digit hex string of n, most significant digit first.
HexDigits(n, k) ==
    IF k = 0 THEN << >> ELSE HexDigits(n \div 16, k - 1) \o <<n % 16>>

\* str(imagehash) of an image whose hash bits, read as a number, are n.
CalculateHash(n) == HexDigits(n, 2 * HashBytes)

RECURSIVE BytesLE(_, _)
BytesLE(bytes, k) ==
    IF k > Len(bytes) THEN 0
    ELSE bytes[k] * Pow(256, k - 1) + BytesLE(bytes, k + 1)

\* imagehash.hex_to_hash, np.packbits(axis=1).flatten() and .view(np.uint64):
\* the hex string is read as bytes in string order and the bytes are taken
\* as a little-endian unsigned integer.
HexToU64(hex) ==
    LET bytes == [k \in 1..(Len(hex) \div 2) |-> 16 * hex[2 * k - 1] + hex[2 * k]]
    IN  BytesLE(bytes, 1)

RECURSIVE BitCountXor(_, _)
\* np.bitwise_count(np.bitwise_xor(a, b)): the Hamming distance.
BitCountXor(a, b) ==
    IF a = 0 /\ b = 0 THEN 0
    ELSE (IF a % 2 = b % 2 THEN 0 ELSE 1) + BitCountXor(a \div 2, b \div 2)

RECURSIVE HexLess(_, _)
\* Python's str comparison hash1 < hash2 on two hex strings.
HexLess(h1, h2) ==
    IF h1 = << >> THEN h2 # << >>
    ELSE IF h2 = << >> THEN FALSE
    ELSE IF Head(h1) # Head(h2) THEN Head(h1) < Head(h2)
    ELSE HexLess(Tail(h1), Tail(h2))

\* ------------------------------------------------------------- the inputs
\* The comics of the scanned directory.  Images are named by the number
\* their hash bits spell:
\*   3 and 12 are shared by comics 1 and 2; 48 (comic 2) and 49 (comic 3)
\*   differ in one bit; 192 occurs twice in comic 3 and once in comic 4.
\* The blacklist image 13 differs from 12 in one bit.
Comics == 1..4

ImageBits(c) ==
    CASE c = 1 -> <<3, 12>>
      [] c = 2 -> <<3, 12, 48>>
      [] c = 3 -> <<49, 192, 192>>
      [] c = 4 -> <<192>>

\* ComicInfo.image_hashes (the hex strings; the file names are not used).
image_hashes(c) == [k \in DOMAIN ImageBits(c) |-> CalculateHash(ImageBits(c)[k])]

\* ComicInfo.image_hash_array.
image_hash_array(c) == [k \in DOMAIN ImageBits(c) |-> HexToU64(image_hashes(c)[k])]

\* Orders in which the extraction stage can deliver the comics.
DeliveryOrders == {<<1, 2, 3, 4>>}

\* The configuration values a run can be started with.
Thresholds == {0, 1}
MinSimilar == {1, 2}
Blacklists == {{}, {CalculateHash(13)}}
\* (min, max) of comic_image_count_range; max = << >> stands for None.
CountRanges == {<<1, << >> >>, <<3, <<3>> >>, <<1, <<1>> >>}

Configs ==
    [similarity_threshold : Thresholds, min_similar_images : MinSimilar,
     blacklist : Blacklists, image_count_range : CountRanges]

\* Iteration orders of a Python set of comics (they depend on the string
\* hash of the cache keys): a rank per comic, lower rank first.
SetOrders == {[c \in Comics |-> c], [c \in Comics |-> 5 - c]}

\* ------------------------------------------------- _detect_duplicates, start
\* The comics that pass the filter on errors, empty comics and the
\* configured image-count range, in delivery order.
ValidComics(comic_infos, cfg) ==
    LET min_image_count == cfg.image_count_range[1]
        max_image_count == cfg.image_count_range[2]
        ok(c) == /\ Len(image_hashes(c)) > 0
                 /\ Len(image_hashes(c)) >= min_image_count
                 /\ \/ max_image_count = << >>
                    \/ Len(image_hashes(c)) <= max_image_count[1]
    IN  SelectSeq(comic_infos, ok)

\* The blacklist as packed integers.
BlacklistU64(cfg) == {HexToU64(h) : h \in cfg.blacklist}

\* Mutant of Blacklisted: an image at exactly the threshold is let through.
BlacklistedBelowThreshold(u, cfg) ==
    \E b \in BlacklistU64(cfg) : BitCountXor(u, b) < cfg.similarity_threshold

\* TRUE iff the packed hash u is within the threshold of a blacklist entry.
Blacklisted(u, cfg) ==
    \E b \in BlacklistU64(cfg) : BitCountXor(u, b) <= cfg.similarity_threshold

\* The file index.db when it does not exist (open() raises).
NoIndex ==
    [exists |-> FALSE, similar_comic_cache_dict |-> << >>,
     cached_duplicate_groups |-> << >>,
     similarity_threshold |-> 0, min_similar_images |-> 0]

\* Mutant of LoadIndex: a widened threshold clears the cached groups only.
LoadIndexKeepVectors(idx, cfg) ==
    IF ~idx.exists
    THEN [similar_comic_cache_dict |-> << >>, cached_duplicate_groups |-> << >>]
    ELSE LET min_lowered == cfg.min_similar_images < idx.min_similar_images
             widened == cfg.similarity_threshold > idx.similarity_threshold
         IN  [similar_comic_cache_dict |-> idx.similar_comic_cache_dict,
              cached_duplicate_groups |->
                 IF min_lowered \/ widened THEN << >>
                 ELSE idx.cached_duplicate_groups]

\* Mutant of LoadIndex: a lowered minimum does not clear the cached groups.
LoadIndexKeepGroups(idx, cfg) ==
    IF ~idx.exists
    THEN [similar_comic_cache_dict |-> << >>, cached_duplicate_groups |-> << >>]
    ELSE LET widened == cfg.similarity_threshold > idx.similarity_threshold
         IN  [similar_comic_cache_dict |->
                 IF widened THEN << >> ELSE idx.similar_comic_cache_dict,
              cached_duplicate_groups |->
                 IF widened THEN << >> ELSE idx.cached_duplicate_groups]

\* Loading index.db and the two invalidation rules.  _persist_index always
\* writes the threshold and the minimum, so the "is None" tests of the code
\* are false for every file the program wrote.
LoadIndex(idx, cfg) ==
    IF ~idx.exists
    THEN [similar_comic_cache_dict |-> << >>, cached_duplicate_groups |-> << >>]
    ELSE LET min_lowered == cfg.min_similar_images < idx.min_similar_images
             widened == cfg.similarity_threshold > idx.similarity_threshold
         IN  [similar_comic_cache_dict |->
                 IF widened THEN << >> ELSE idx.similar_comic_cache_dict,
              cached_duplicate_groups |->
                 IF min_lowered \/ widened THEN << >>
                 ELSE idx.cached_duplicate_groups]

\* The members of a cached group that are valid comics of this run.
ValidComicsInGroup(group, valid_comics) ==
    SelectSeq(group.comic_cache_keys, LAMBDA k : k \in Range(valid_comics))

\* hash_comic_cache_keys[h]: the present members that own the hex string h.
HashComicCacheKeys(in_group, h) ==
    {c \in Range(in_group) : h \in Range(image_hashes(c))}

\* The tests on one cached evidence pair up to the blacklist test.
EvidenceOwned(e, in_group, cfg) ==
    /\ e[3] <= cfg.similarity_threshold
    /\ HashComicCacheKeys(in_group, e[1]) # {}
    /\ HashComicCacheKeys(in_group, e[2]) # {}
    /\ ~(\A ck1 \in HashComicCacheKeys(in_group, e[1]) :
           \A ck2 \in HashComicCacheKeys(in_group, e[2]) : ck1 = ck2)

\* np.all(hamming_distances > similarity_threshold) for the two endpoints.
EvidenceNotBlacklisted(e, cfg) ==
    /\ ~Blacklisted(HexToU64(e[1]), cfg)
    /\ ~Blacklisted(HexToU64(e[2]), cfg)

\* valid_similar_hash_groups: with an empty blacklist a pair is appended
\* right after the ownership tests.
ValidSimilarHashGroups(group, in_group, cfg) ==
    {e \in group.similar_hash_groups :
        /\ EvidenceOwned(e, in_group, cfg)
        /\ (cfg.blacklist = {} \/ EvidenceNotBlacklisted(e, cfg))}

\* valid_similar_hashes: filled only on the path that tests the blacklist.
ValidSimilarHashes(valid_groups, cfg) ==
    IF cfg.blacklist = {} THEN {}
    ELSE UNION {{e[1], e[2]} : e \in valid_groups}

\* similar_count of one member: its images whose hex string is a valid endpoint.
SimilarCount(c, hashes) ==
    Cardinality({k \in DOMAIN image_hashes(c) : image_hashes(c)[k] \in hashes})

\* The replay of one cached group: << >> when the group is dropped, else
\* the one DuplicateGroup it is replayed as.
ReplayGroup(group, valid_comics, cfg) ==
    LET in_group == ValidComicsInGroup(group, valid_comics)
        valid_groups == ValidSimilarHashGroups(group, in_group, cfg)
        hashes == ValidSimilarHashes(valid_groups, cfg)
        in_group2 == SelectSeq(in_group,
                       LAMBDA c : SimilarCount(c, hashes) >= cfg.min_similar_images)
    IN  IF Len(in_group) < 2 THEN << >>
        ELSE IF Len(in_group2) < 2 THEN << >>
        ELSE <<[comics |-> in_group2, similar_hash_groups |-> valid_groups]>>

RECURSIVE ValidCachedGroups(_, _, _)
\* valid_cached_groups, in the order of the cached groups.
ValidCachedGroups(cached, valid_comics, cfg) ==
    IF cached = << >> THEN << >>
    ELSE ReplayGroup(Head(cached), valid_comics, cfg)
         \o ValidCachedGroups(Tail(cached), valid_comics, cfg)

\* skipped_comic_cache_keys: members of replayed groups and the keys whose
\* cached vector has every count below the current minimum.
SkippedKeys(valid_cached_groups, dict, cfg) ==
    UNION {Range(g.comics) : g \in Range(valid_cached_groups)}
      \cup {k \in DOMAIN dict :
              \A n \in DOMAIN dict[k] : dict[k][n] < cfg.min_similar_images}

\* SortValid without the sort: the comics stay in the order delivered.
SortValidKeepOrder(valid_comics, skipped) == valid_comics

\* valid_comics.sort(key = 1 if skipped else 0): stable, skipped last.
SortValid(valid_comics, skipped) ==
    SelectSeq(valid_comics, LAMBDA c : c \notin skipped)
      \o SelectSeq(valid_comics, LAMBDA c : c \in skipped)

\* -------------------------------------------------------------- the corpus
RECURSIVE ComicEntries(_, _, _, _)
\* The entries of one comic: its images that are not blacklisted.
ComicEntries(c, comic_idx, k, cfg) ==
    IF k > Len(image_hash_array(c)) THEN << >>
    ELSE (IF Blacklisted(image_hash_array(c)[k], cfg) THEN << >>
          ELSE <<[hash |-> image_hash_array(c)[k],
                  comic_idx |-> comic_idx, image_idx |-> k]>>)
         \o ComicEntries(c, comic_idx, k + 1, cfg)

RECURSIVE CorpusFrom(_, _, _)
CorpusFrom(valid_comics, comic_idx, cfg) ==
    IF comic_idx > Len(valid_comics) THEN << >>
    ELSE ComicEntries(valid_comics[comic_idx], comic_idx, 1, cfg)
         \o CorpusFrom(valid_comics, comic_idx + 1, cfg)

\* all_hashes with hash_to_comic_idx and hash_to_image_idx: one entry per
\* surviving image, comic by comic (indices count from 1 here).
Corpus(valid_comics, cfg) == CorpusFrom(valid_comics, 1, cfg)

\* The corpus positions of comic comic_idx: its range [start, end).
ComicPositions(corpus, comic_idx) ==
    {k \in DOMAIN corpus : corpus[k].comic_idx = comic_idx}

\* comic_hash_ranges: defined for the comics with at least one entry.
ComicHashRanges(corpus) ==
    [i \in {corpus[k].comic_idx : k \in DOMAIN corpus} |->
        LET pos == ComicPositions(corpus, i)
        IN  <<CHOOSE a \in pos : \A b \in pos : a <= b,
              (CHOOSE a \in pos : \A b \in pos : a >= b) + 1>>]

\* ------------------------------------------- _detect_duplicates, one source
\* SimilarityResults against the images of the later comics only.
SimilarityResultsLaterOnly(corpus, i, cfg) ==
    {<<p[1], p[2], BitCountXor(corpus[p[1]].hash, corpus[p[2]].hash)>> :
        p \in {q \in ComicPositions(corpus, i) \X DOMAIN corpus :
                 /\ corpus[q[2]].comic_idx > i
                 /\ BitCountXor(corpus[q[1]].hash, corpus[q[2]].hash)
                      <= cfg.similarity_threshold}}

\* similarity_results of source i: <<a, k, d>> for every image a of the
\* source and every corpus position k (of any comic, the source included)
\* whose hash is within the threshold, d being the distance.
SimilarityResults(corpus, i, cfg) ==
    {<<p[1], p[2], BitCountXor(corpus[p[1]].hash, corpus[p[2]].hash)>> :
        p \in {q \in ComicPositions(corpus, i) \X DOMAIN corpus :
                 BitCountXor(corpus[q[1]].hash, corpus[q[2]].hash)
                   <= cfg.similarity_threshold}}

\* similar_comic_index_dict[j][0]: the images of the source with a similar
\* image in comic j.
Indices1(corpus, results, j) ==
    {r[1] : r \in {q \in results : corpus[q[2]].comic_idx = j}}

\* similar_comic_index_dict[j][1]: the images of comic j similar to an
\* image of the source.
Indices2(corpus, results, j) ==
    {r[2] : r \in {q \in results : corpus[q[2]].comic_idx = j}}

\* Mutant of MatchCount: only the source's side is counted.
MatchCountSourceSide(corpus, results, j) ==
    Cardinality(Indices1(corpus, results, j))

\* min(len(indices1), len(indices2)).
MatchCount(corpus, results, j) ==
    Min2(Cardinality(Indices1(corpus, results, j)),
         Cardinality(Indices2(corpus, results, j)))

RECURSIVE KeyOrder(_, _)
\* The keys of similar_comic_index_dict in insertion order: a comic enters
\* at the first image of the source that matches it, and for one image the
\* matches are visited in corpus order.  first[j] is that first image.
KeyOrder(first, todo) ==
    IF todo = {} THEN << >>
    ELSE LET j0 == CHOOSE j \in todo : \A m \in todo :
                       \/ first[j] < first[m]
                       \/ first[j] = first[m] /\ j <= m
         IN  <<j0>> \o KeyOrder(first, todo \ {j0})

\* The comic indices that source i matched in at least one image.
SimilarComicKeys(corpus, results, i) ==
    LET keys == {corpus[r[2]].comic_idx : r \in results} \ {i}
        first == [j \in keys |->
                    CHOOSE a \in Indices1(corpus, results, j) :
                        \A b \in Indices1(corpus, results, j) : a <= b]
    IN  KeyOrder(first, keys)

\* counts: the match-count vector of the source.
Counts(corpus, results, i) ==
    LET keys == SimilarComicKeys(corpus, results, i)
    IN  [n \in DOMAIN keys |-> MatchCount(corpus, results, keys[n])]

\* valid_similar_comics: the matched comics that reach the minimum.
ValidSimilarComics(corpus, results, i, cfg) ==
    SelectSeq(SimilarComicKeys(corpus, results, i),
              LAMBDA j : MatchCount(corpus, results, j) >= cfg.min_similar_images)

\* HashPair without the swap: the source's hex string always first.
HashPairSourceFirst(hash1, hash2, distance) == <<hash1, hash2, distance>>

\* One evidence triple, the smaller hex string first.
HashPair(hash1, hash2, distance) ==
    IF HexLess(hash2, hash1) THEN <<hash2, hash1, distance>>
    ELSE <<hash1, hash2, distance>>

\* The evidence collected between source i and the linked comic j.
PairEvidence(valid_comics, corpus, results, i, j) ==
    {HashPair(image_hashes(valid_comics[i])[corpus[r[1]].image_idx],
              image_hashes(valid_comics[j])[corpus[r[2]].image_idx],
              r[3]) :
        r \in {q \in results : corpus[q[2]].comic_idx = j}}

\* all_similar_groups of the new group.
AllSimilarGroups(valid_comics, corpus, results, linked, i) ==
    UNION {PairEvidence(valid_comics, corpus, results, i, j) : j \in Range(linked)}

\* similar_comics: the source followed by its linked comics.
SimilarComics(valid_comics, linked, i) ==
    <<valid_comics[i]>> \o [n \in DOMAIN linked |-> valid_comics[linked[n]]]

RECURSIVE RemoveFirst(_, _)
\* list.remove(x): drops the first element equal to x.
RemoveFirst(seq, x) ==
    IF seq = << >> THEN << >>
    ELSE IF Head(seq) = x THEN Tail(seq)
    ELSE <<Head(seq)>> \o RemoveFirst(Tail(seq), x)

RECURSIVE MergeKeepingOld(_, _, _)
\* Mutant of MergeExisting: the old group objects stay in duplicate_groups.
MergeKeepingOld(similar_comics, map, acc) ==
    IF similar_comics = << >> THEN acc
    ELSE LET comic == Head(similar_comics)
         IN  IF comic \notin DOMAIN map
             THEN MergeKeepingOld(Tail(similar_comics), map, acc)
             ELSE MergeKeepingOld(Tail(similar_comics), map,
                    [acc EXCEPT
                       !.all_merged_comics = @ \cup Range(map[comic].comics),
                       !.similar_hash_groups = @ \cup map[comic].similar_hash_groups])

RECURSIVE MergeEvidenceOnly(_, _, _)
\* Mutant of MergeExisting: the members of the old groups are not taken over.
MergeEvidenceOnly(similar_comics, map, acc) ==
    IF similar_comics = << >> THEN acc
    ELSE LET comic == Head(similar_comics)
         IN  IF comic \notin DOMAIN map
             THEN MergeEvidenceOnly(Tail(similar_comics), map, acc)
             ELSE MergeEvidenceOnly(Tail(similar_comics), map,
                    [acc EXCEPT
                       !.similar_hash_groups = @ \cup map[comic].similar_hash_groups,
                       !.duplicate_groups =
                          IF map[comic] \in Range(@)
                          THEN RemoveFirst(@, map[comic]) ELSE @])

\* Mutant of MergeExisting: only the first existing group met is merged.
MergeFirstGroupOnly(similar_comics, map, acc) ==
    LET met == {n \in DOMAIN similar_comics : similar_comics[n] \in DOMAIN map}
    IN  IF met = {} THEN acc
        ELSE LET first == CHOOSE n \in met : \A m \in met : n <= m
                 existing_group == map[similar_comics[first]]
             IN  [all_merged_comics |->
                     acc.all_merged_comics \cup Range(existing_group.comics),
                  similar_hash_groups |->
                     acc.similar_hash_groups
                       \cup existing_group.similar_hash_groups,
                  duplicate_groups |->
                     IF existing_group \in Range(acc.duplicate_groups)
                     THEN RemoveFirst(acc.duplicate_groups, existing_group)
                     ELSE acc.duplicate_groups]

RECURSIVE MergeExisting(_, _, _)
\* The merge loop over similar_comics: acc carries all_merged_comics, the
\* evidence of the new group and duplicate_groups.
MergeExisting(similar_comics, map, acc) ==
    IF similar_comics = << >> THEN acc
    ELSE LET comic == Head(similar_comics)
         IN  IF comic \notin DOMAIN map
             THEN MergeExisting(Tail(similar_comics), map, acc)
             ELSE LET existing_group == map[comic]
                  IN  MergeExisting(Tail(similar_comics), map,
                        [all_merged_comics |->
                            acc.all_merged_comics \cup Range(existing_group.comics),
                         similar_hash_groups |->
                            acc.similar_hash_groups
                              \cup existing_group.similar_hash_groups,
                         duplicate_groups |->
                            IF existing_group \in Range(acc.duplicate_groups)
                            THEN RemoveFirst(acc.duplicate_groups, existing_group)
                            ELSE acc.duplicate_groups])

RECURSIVE SortedComicsBySetOrder(_, _)
\* SortedComics without the sort key: the set's iteration order.
SortedComicsBySetOrder(S, order) ==
    IF S = {} THEN << >>
    ELSE LET c0 == CHOOSE c \in S : \A d \in S : order[c] <= order[d]
         IN  <<c0>> \o SortedComicsBySetOrder(S \ {c0}, order)

RECURSIVE SortedComics(_, _)
\* sorted(all_merged_comics, key = image count, reverse = True): stable in
\* the iteration order of the set, given by the ranks in order.
SortedComics(S, order) ==
    IF S = {} THEN << >>
    ELSE LET c0 == CHOOSE c \in S : \A d \in S :
                      \/ Len(image_hashes(c)) > Len(image_hashes(d))
                      \/ /\ Len(image_hashes(c)) = Len(image_hashes(d))
                         /\ order[c] <= order[d]
         IN  <<c0>> \o SortedComics(S \ {c0}, order)

\* Mutant of PersistedIndex: the match-count vectors are not written.
PersistedIndexWithoutVectors(dict, groups, cfg) ==
    [exists |-> TRUE,
     similar_comic_cache_dict |-> << >>,
     cached_duplicate_groups |->
        [n \in DOMAIN groups |->
            [comic_cache_keys |-> groups[n].comics,
             similar_hash_groups |-> groups[n].similar_hash_groups]],
     similarity_threshold |-> cfg.similarity_threshold,
     min_similar_images |-> cfg.min_similar_images]

\* What _persist_index writes.
PersistedIndex(dict, groups, cfg) ==
    [exists |-> TRUE,
     similar_comic_cache_dict |-> dict,
     cached_duplicate_groups |->
        [n \in DOMAIN groups |->
            [comic_cache_keys |-> groups[n].comics,
             similar_hash_groups |-> groups[n].similar_hash_groups]],
     similarity_threshold |-> cfg.similarity_threshold,
     min_similar_images |-> cfg.min_similar_images]

\* The iteration of the detection loop that compares source i: st holds
\* duplicate_groups, comic_to_group_map, similar_comic_cache_dict,
\* recall_comic_cache_keys, valid_similar_comics and the index file.
CompareComic(st, valid_comics, skipped, i, cfg, order) ==
    LET corpus == Corpus(valid_comics, cfg)
        comic == valid_comics[i]
    IN
    IF i \notin DOMAIN ComicHashRanges(corpus) THEN st
    ELSE
    LET results == SimilarityResults(corpus, i, cfg)
        dict == [k \in DOMAIN st.similar_comic_cache_dict \cup {comic} |->
                    IF k = comic THEN Counts(corpus, results, i)
                    ELSE st.similar_comic_cache_dict[k]]
        linked == ValidSimilarComics(corpus, results, i, cfg)
    IN
    IF linked = << >>
    THEN [st EXCEPT !.similar_comic_cache_dict = dict,
                    !.valid_similar_comics = linked]
    ELSE
    LET similar_comics == SimilarComics(valid_comics, linked, i)
        merged == MergeExisting(similar_comics, st.comic_to_group_map,
                    [all_merged_comics |-> Range(similar_comics),
                     similar_hash_groups |->
                        AllSimilarGroups(valid_comics, corpus, results, linked, i),
                     duplicate_groups |-> st.duplicate_groups])
        duplicate_group ==
            [comics |-> SortedComics(merged.all_merged_comics, order),
             similar_hash_groups |-> merged.similar_hash_groups]
        groups == Append(merged.duplicate_groups, duplicate_group)
    IN  [duplicate_groups |-> groups,
         comic_to_group_map |->
            [c \in DOMAIN st.comic_to_group_map \cup Range(duplicate_group.comics) |->
                IF c \in Range(duplicate_group.comics) THEN duplicate_group
                ELSE st.comic_to_group_map[c]],
         similar_comic_cache_dict |-> dict,
         recall_comic_cache_keys |->
            st.recall_comic_cache_keys \cup (Range(similar_comics) \cap skipped),
         valid_similar_comics |-> linked,
         index |-> PersistedIndex(dict, groups, cfg)]

\* ------------------------------------------------------------------- state
VARIABLES
    index,                     \* the file index.db
    pc,                        \* "idle": no scan runs; "loop": in the detection loop
    runs,                      \* scans started so far
    config,                    \* the configuration the current scan reads
    comic_infos,               \* the argument of _detect_duplicates
    valid_comics,              \* after the filter and the sort
    valid_cached_groups,       \* the cached groups that were replayed
    skipped_comic_cache_keys,
    recall_comic_cache_keys,
    similar_comic_cache_dict,
    duplicate_groups,          \* the result list; the return value when pc = "idle"
    comic_to_group_map,
    comic_idx,                 \* the position of the loop in valid_comics
    valid_similar_comics,      \* the linked comic indices of the last comparison
    should_stop,               \* Scanner.should_stop
    processed,                 \* history: comics that passed the skip and stop checks
    cached_similarity_threshold,   \* the threshold read from index.db
    cached_min_similar_images,     \* the minimum read from index.db
    stopped,                   \* history: the loop of this scan ended by break
    scan_pc,                   \* the position of scan_directory
    scans,                     \* calls of scan_directory so far
    is_paused,                 \* Scanner.is_paused
    enable_cache,              \* config "enable_cache" as the workers read it
    comic_files,               \* the result of _find_comic_files
    futures,                   \* one future per comic file
    progress,                  \* Scanner.progress: processed_files and errors
    outcome,                   \* the signal the scan ended with
    extracted_before,          \* history: files some call has extracted
    cache_manager              \* CacheManager: the record of each comic

vars ==
    <<index, pc, runs, config, comic_infos, valid_comics, valid_cached_groups,
      skipped_comic_cache_keys, recall_comic_cache_keys, similar_comic_cache_dict,
      duplicate_groups, comic_to_group_map, comic_idx, valid_similar_comics,
      should_stop, processed, cached_similarity_threshold,
      cached_min_similar_images, stopped,
      scan_pc, scans, is_paused, enable_cache, comic_files, futures, progress,
      outcome, extracted_before, cache_manager>>

\* The state of scan_directory outside _detect_duplicates.
scan_vars ==
    <<scan_pc, scans, is_paused, enable_cache, comic_files, futures, progress,
      outcome, extracted_before, cache_manager>>

\* One cache key per comic: get_cache_key(file_path, mtime, algorithm).
CacheKeys == Comics

\* No entry in _memory_cache and no cache file.
NoRecord == [file |-> "none", image_hashes |-> << >>, memory |-> FALSE]

\* set_comic_cache: the data goes to _memory_cache and to the cache file.
SetComicCache(cm, c, hashes) ==
    [cm EXCEPT ![c] = [file |-> "valid", image_hashes |-> hashes,
                       memory |-> TRUE]]

\* get_comic_cache: the entry of _memory_cache, else the cache file if it
\* can be read and passes _validate_cache_data, else None.
GetComicCache(cm, c) ==
    IF cm[c].memory \/ cm[c].file = "valid"
    THEN [found |-> TRUE, image_hashes |-> cm[c].image_hashes]
    ELSE [found |-> FALSE, image_hashes |-> << >>]

NoConfig ==
    [similarity_threshold |-> 0, min_similar_images |-> 1, blacklist |-> {},
     image_count_range |-> <<1, << >> >>]

\* A local that was never assigned (the code's None).
NoValue == 0 - 1

\* Scanner.__init__ and a directory that was never scanned.
Init ==
    /\ index = NoIndex
    /\ pc = "idle"
    /\ runs = 0
    /\ config = NoConfig
    /\ comic_infos = << >>
    /\ valid_comics = << >>
    /\ valid_cached_groups = << >>
    /\ skipped_comic_cache_keys = {}
    /\ recall_comic_cache_keys = {}
    /\ similar_comic_cache_dict = << >>
    /\ duplicate_groups = << >>
    /\ comic_to_group_map = << >>
    /\ comic_idx = 1
    /\ valid_similar_comics = << >>
    /\ should_stop = FALSE
    /\ processed = {}
    /\ cached_similarity_threshold = NoValue
    /\ cached_min_similar_images = NoValue
    /\ stopped = FALSE
    /\ scan_pc = "idle"
    /\ scans = 0
    /\ is_paused = FALSE
    /\ enable_cache = FALSE
    /\ comic_files = << >>
    /\ futures = << >>
    /\ progress = [processed_files |-> 0, errors |-> 0]
    /\ outcome = "none"
    /\ extracted_before = {}
    /\ cache_manager = [c \in CacheKeys |-> NoRecord]

\* comic_to_group_map after the replay: every member of a replayed group.
InitialGroupMap(groups) ==
    [c \in UNION {Range(groups[n].comics) : n \in DOMAIN groups} |->
        LET n == CHOOSE m \in DOMAIN groups :
                    /\ c \in Range(groups[m].comics)
                    /\ \A l \in DOMAIN groups :
                          c \in Range(groups[l].comics) => l <= m
        IN  groups[n]]

\* _detect_duplicates(infos) under configuration cfg: everything from the
\* filter to the entry of the detection loop.
EnterDetect(cfg, infos) ==
    /\ runs < MaxRuns
    /\ runs' = runs + 1
    /\ config' = cfg
    /\ comic_infos' = infos
    /\ should_stop' = FALSE
    /\ processed' = {}
    /\ stopped' = FALSE
    /\ recall_comic_cache_keys' = {}
    /\ comic_idx' = 1
    /\ valid_similar_comics' = << >>
    /\ UNCHANGED index
    /\ LET valid == ValidComics(infos, cfg)
           loaded == LoadIndex(index, cfg)
           replayed == ValidCachedGroups(loaded.cached_duplicate_groups, valid, cfg)
           skipped == SkippedKeys(replayed, loaded.similar_comic_cache_dict, cfg)
           sorted == SortValid(valid, skipped)
       IN  IF Len(valid) < 2
           THEN /\ pc' = "idle"
                /\ cached_similarity_threshold' = NoValue
                /\ cached_min_similar_images' = NoValue
                /\ valid_comics' = valid
                /\ valid_cached_groups' = << >>
                /\ skipped_comic_cache_keys' = {}
                /\ similar_comic_cache_dict' = << >>
                /\ duplicate_groups' = << >>
                /\ comic_to_group_map' = << >>
           ELSE /\ pc' = IF Corpus(sorted, cfg) = << >> THEN "idle" ELSE "loop"
                /\ cached_similarity_threshold' =
                      IF index.exists THEN index.similarity_threshold ELSE NoValue
                /\ cached_min_similar_images' =
                      IF index.exists THEN index.min_similar_images ELSE NoValue
                /\ valid_comics' = sorted
                /\ valid_cached_groups' = replayed
                /\ skipped_comic_cache_keys' = skipped
                /\ similar_comic_cache_dict' = loaded.similar_comic_cache_dict
                /\ duplicate_groups' = replayed
                /\ comic_to_group_map' = InitialGroupMap(replayed)

\* scan_directory has extracted infos and calls _detect_duplicates(infos).
StartDetect(cfg, infos) ==
    /\ pc = "idle"
    /\ scan_pc = "idle"
    /\ EnterDetect(cfg, infos)
    /\ UNCHANGED scan_vars

InLoop == pc = "loop" /\ comic_idx <= Len(valid_comics)

IsSkipped ==
    /\ valid_comics[comic_idx] \in skipped_comic_cache_keys
    /\ valid_comics[comic_idx] \notin recall_comic_cache_keys

\* SkipComic as a break: the loop ends at the skipped comic and the final
\* _persist_index follows.
SkipComicBreak ==
    /\ InLoop
    /\ IsSkipped
    /\ index' = PersistedIndex(similar_comic_cache_dict, duplicate_groups, config)
    /\ pc' = "idle"
    /\ UNCHANGED <<runs, config, comic_infos, valid_comics, valid_cached_groups,
                   skipped_comic_cache_keys, recall_comic_cache_keys,
                   similar_comic_cache_dict, duplicate_groups, comic_to_group_map,
                   comic_idx, valid_similar_comics, should_stop, processed,
                   cached_similarity_threshold, cached_min_similar_images, stopped>>
    /\ UNCHANGED scan_vars

\* The loop reaches a skipped comic that was not recalled: continue.
SkipComic ==
    /\ InLoop
    /\ IsSkipped
    /\ comic_idx' = comic_idx + 1
    /\ UNCHANGED <<index, pc, runs, config, comic_infos, valid_comics,
                   valid_cached_groups, skipped_comic_cache_keys,
                   recall_comic_cache_keys, similar_comic_cache_dict,
                   duplicate_groups, comic_to_group_map, valid_similar_comics,
                   should_stop, processed, cached_similarity_threshold,
                   cached_min_similar_images, stopped>>
    /\ UNCHANGED scan_vars

\* The loop sees should_stop: break, the final _persist_index and return.
StopBreak ==
    /\ InLoop
    /\ ~IsSkipped
    /\ should_stop
    /\ index' = PersistedIndex(similar_comic_cache_dict, duplicate_groups, config)
    /\ pc' = "idle"
    /\ stopped' = TRUE
    /\ UNCHANGED <<runs, config, comic_infos, valid_comics, valid_cached_groups,
                   skipped_comic_cache_keys, recall_comic_cache_keys,
                   similar_comic_cache_dict, duplicate_groups, comic_to_group_map,
                   comic_idx, valid_similar_comics, should_stop, processed,
                   cached_similarity_threshold, cached_min_similar_images>>
    /\ UNCHANGED scan_vars

\* The loop compares the comic at comic_idx as a source.
CompareSource ==
    /\ InLoop
    /\ ~IsSkipped
    /\ ~is_paused
    /\ ~should_stop
    /\ \E order \in SetOrders :
         LET st == CompareComic(
                     [duplicate_groups |-> duplicate_groups,
                      comic_to_group_map |-> comic_to_group_map,
                      similar_comic_cache_dict |-> similar_comic_cache_dict,
                      recall_comic_cache_keys |-> recall_comic_cache_keys,
                      valid_similar_comics |-> valid_similar_comics,
                      index |-> index],
                     valid_comics, skipped_comic_cache_keys, comic_idx, config, order)
         IN  /\ duplicate_groups' = st.duplicate_groups
             /\ comic_to_group_map' = st.comic_to_group_map
             /\ similar_comic_cache_dict' = st.similar_comic_cache_dict
             /\ recall_comic_cache_keys' = st.recall_comic_cache_keys
             /\ valid_similar_comics' = st.valid_similar_comics
             /\ index' = st.index
    /\ processed' = processed \cup {valid_comics[comic_idx]}
    /\ comic_idx' = comic_idx + 1
    /\ UNCHANGED <<pc, runs, config, comic_infos, valid_comics, valid_cached_groups,
                   skipped_comic_cache_keys, should_stop, cached_similarity_threshold,
                   cached_min_similar_images, stopped>>
    /\ UNCHANGED scan_vars

\* The loop is exhausted: the final _persist_index and return.
FinishDetect ==
    /\ pc = "loop"
    /\ comic_idx > Len(valid_comics)
    /\ index' = PersistedIndex(similar_comic_cache_dict, duplicate_groups, config)
    /\ pc' = "idle"
    /\ UNCHANGED <<runs, config, comic_infos, valid_comics, valid_cached_groups,
                   skipped_comic_cache_keys, recall_comic_cache_keys,
                   similar_comic_cache_dict, duplicate_groups, comic_to_group_map,
                   comic_idx, valid_similar_comics, should_stop, processed,
                   cached_similarity_threshold, cached_min_similar_images, stopped>>
    /\ UNCHANGED scan_vars

\* Scanner.stop_scan, called from the GUI thread while the scan runs.
StopScan ==
    /\ pc = "loop" \/ scan_pc # "idle"
    /\ ~should_stop
    /\ should_stop' = TRUE
    /\ UNCHANGED <<index, pc, runs, config, comic_infos, valid_comics,
                   valid_cached_groups, skipped_comic_cache_keys,
                   recall_comic_cache_keys, similar_comic_cache_dict,
                   duplicate_groups, comic_to_group_map, comic_idx,
                   valid_similar_comics, processed, cached_similarity_threshold,
                   cached_min_similar_images, stopped>>
    /\ UNCHANGED scan_vars

Next ==
    \/ \E cfg \in Configs : \E infos \in DeliveryOrders : StartDetect(cfg, infos)
    \/ SkipComic
    \/ StopBreak
    \/ CompareSource
    \/ FinishDetect
    \/ StopScan

Spec == Init /\ [][Next]_vars

\* Scans of one unchanged directory under one blacklist and one image-count
\* range: from the second scan on only the threshold and the minimum vary.
StartSameInputs(cfg, infos) ==
    /\ runs > 0 =>
          /\ infos = comic_infos
          /\ cfg.blacklist = config.blacklist
          /\ cfg.image_count_range = config.image_count_range
    /\ StartDetect(cfg, infos)

NextSameInputs ==
    \/ \E cfg \in Configs : \E infos \in DeliveryOrders : StartSameInputs(cfg, infos)
    \/ SkipComic
    \/ StopBreak
    \/ CompareSource
    \/ FinishDetect
    \/ StopScan

SpecSameInputs == Init /\ [][NextSameInputs]_vars

\* index.db after the process died inside _persist_index: open("index.db",
\* "wb") has truncated the file and pickle.dump has written nothing yet or
\* only a part.  pickle.load raises on both, so a later scan loads nothing.
TornIndexes ==
    {[exists |-> FALSE, torn |-> t, similar_comic_cache_dict |-> << >>,
      cached_duplicate_groups |-> << >>,
      similarity_threshold |-> 0, min_similar_images |-> 0] :
        t \in {"empty", "partial"}}

\* The loop has reached a comic it will compare and find linked comics for,
\* so that this iteration ends in _persist_index.
AboutToPersistGroup ==
    /\ InLoop /\ ~IsSkipped /\ ~should_stop
    /\ LET corpus == Corpus(valid_comics, config)
       IN  /\ comic_idx \in DOMAIN ComicHashRanges(corpus)
           /\ ValidSimilarComics(corpus,
                 SimilarityResults(corpus, comic_idx, config),
                 comic_idx, config) # << >>

\* The process is killed (or crashes) while _persist_index writes: after a
\* group discovery, after the break on stop or after the loop.  The
\* application has to be started again, so no scan is running afterwards.
KillDuringPersist ==
    /\ pc = "loop"
    /\ \/ AboutToPersistGroup
       \/ InLoop /\ ~IsSkipped /\ should_stop
       \/ comic_idx > Len(valid_comics)
    /\ index' \in TornIndexes
    /\ pc' = "idle"
    /\ stopped' = TRUE
    /\ UNCHANGED <<runs, config, comic_infos, valid_comics, valid_cached_groups,
                   skipped_comic_cache_keys, recall_comic_cache_keys,
                   similar_comic_cache_dict, duplicate_groups, comic_to_group_map,
                   comic_idx, valid_similar_comics, should_stop, processed,
                   cached_similarity_threshold, cached_min_similar_images>>
    /\ UNCHANGED scan_vars

NextWithKill ==
    \/ \E cfg \in Configs : \E infos \in DeliveryOrders : StartDetect(cfg, infos)
    \/ SkipComic
    \/ StopBreak
    \/ CompareSource
    \/ FinishDetect
    \/ StopScan
    \/ KillDuringPersist

\* The scans of Spec in a process that can be killed at any write of index.db.
SpecWithKill == Init /\ [][NextWithKill]_vars

\* ------------------------------------------------------------ scan_directory
\* A comic file that cannot be read: os.stat or read_all_images raises.
Broken == 5

\* What _find_comic_files returns for the directories that are scanned.
Directories == {<< >>, <<1, 2>>, <<1, Broken, 4>>}

\* The detection settings during these scans.
ScanConfigs ==
    {cfg \in Configs : /\ cfg.similarity_threshold = 0
                       /\ cfg.min_similar_images = 1
                       /\ cfg.blacklist = {}
                       /\ cfg.image_count_range = <<1, << >> >>}

\* config.get_max_workers().
MaxWorkers == 2

IsScanning == scan_pc # "idle"

Running == {k \in DOMAIN futures : futures[k].st = "running"}

\* Futures that as_completed has ready and the coordinator has not taken.
Ready == {k \in DOMAIN futures : futures[k].st = "done" /\ ~futures[k].taken}

\* scan_directory(dir) up to the submission of one task per comic file; an
\* empty directory ends the scan with scan_error.
StartScan(dir, cache) ==
    /\ scan_pc = "idle"
    /\ pc = "idle"
    /\ scans < MaxRuns
    /\ scans' = scans + 1
    /\ is_paused' = FALSE
    /\ should_stop' = FALSE
    /\ enable_cache' = cache
    /\ comic_files' = dir
    /\ extracted_before' = extracted_before
    /\ UNCHANGED cache_manager
    /\ IF dir = << >>
       THEN /\ outcome' = "error"
            /\ scan_pc' = "idle"
            /\ futures' = << >>
            /\ UNCHANGED <<progress, comic_infos>>
       ELSE /\ outcome' = "none"
            /\ scan_pc' = "extract"
            /\ futures' = [k \in DOMAIN dir |->
                             [st |-> "pending", img |-> 0, result |-> "none",
                              taken |-> FALSE]]
            /\ progress' = [processed_files |-> 0, errors |-> 0]
            /\ comic_infos' = << >>
    /\ UNCHANGED <<index, pc, runs, config, valid_comics, valid_cached_groups,
                   skipped_comic_cache_keys, recall_comic_cache_keys,
                   similar_comic_cache_dict, duplicate_groups, comic_to_group_map,
                   comic_idx, valid_similar_comics, processed,
                   cached_similarity_threshold, cached_min_similar_images, stopped>>

\* The variables of _detect_duplicates and the flag should_stop.
detect_vars ==
    <<index, pc, runs, config, valid_comics, valid_cached_groups,
      skipped_comic_cache_keys, recall_comic_cache_keys, similar_comic_cache_dict,
      duplicate_groups, comic_to_group_map, comic_idx, valid_similar_comics,
      should_stop, processed, cached_similarity_threshold,
      cached_min_similar_images, stopped>>

\* The hashes of the first n images of task k, as the image loop collects them.
Hashed(k, n) == SubSeq(image_hashes(comic_files[k]), 1, n)

\* A pool thread takes the next task and runs _process_single_comic up to
\* the image loop: os.stat, then, with the cache enabled, the call of
\* cache_manager.get_cache, a method CacheManager does not have (the
\* AttributeError is caught and the call returns None).
WorkerStart(k) ==
    /\ scan_pc = "extract"
    /\ k \in DOMAIN futures
    /\ futures[k].st = "pending"
    /\ \A j \in DOMAIN futures : j < k => futures[j].st # "pending"
    /\ Cardinality(Running) < MaxWorkers
    /\ futures' = [futures EXCEPT ![k] =
                     IF enable_cache \/ comic_files[k] = Broken
                     THEN [@ EXCEPT !.st = "done", !.result = "failed"]
                     ELSE [@ EXCEPT !.st = "running"]]
    /\ UNCHANGED <<scan_pc, scans, is_paused, enable_cache, comic_files, progress,
                   outcome, extracted_before, comic_infos>>
    /\ UNCHANGED detect_vars
    /\ UNCHANGED cache_manager

\* WorkerImage that writes the cache record of a comic abandoned on stop.
WorkerImageCacheOnStop(k) ==
    /\ k \in DOMAIN futures
    /\ futures[k].st = "running"
    /\ ~is_paused \/ should_stop
    /\ IF should_stop
       THEN /\ futures' = [futures EXCEPT ![k] =
                             [@ EXCEPT !.st = "done", !.result = "stopped"]]
            /\ extracted_before' = extracted_before
            /\ cache_manager' =
                  IF enable_cache
                  THEN SetComicCache(cache_manager, comic_files[k],
                                     Hashed(k, futures[k].img))
                  ELSE cache_manager
       ELSE IF futures[k].img + 1 = Len(image_hashes(comic_files[k]))
       THEN /\ futures' = [futures EXCEPT ![k] =
                             [@ EXCEPT !.st = "done", !.result = "info",
                                       !.img = @ + 1]]
            /\ extracted_before' = extracted_before \cup {comic_files[k]}
            /\ cache_manager' =
                  IF enable_cache
                  THEN SetComicCache(cache_manager, comic_files[k],
                                     Hashed(k, futures[k].img + 1))
                  ELSE cache_manager
       ELSE /\ futures' = [futures EXCEPT ![k] = [@ EXCEPT !.img = @ + 1]]
            /\ extracted_before' = extracted_before
            /\ cache_manager' = cache_manager
    /\ UNCHANGED <<scan_pc, scans, is_paused, enable_cache, comic_files, progress,
                   outcome, comic_infos>>
    /\ UNCHANGED detect_vars

\* WorkerImage with a pause wait that does not look at should_stop.
WorkerImagePauseIgnoresStop(k) ==
    /\ k \in DOMAIN futures
    /\ futures[k].st = "running"
    /\ ~is_paused
    /\ IF should_stop
       THEN /\ futures' = [futures EXCEPT ![k] =
                             [@ EXCEPT !.st = "done", !.result = "stopped"]]
            /\ extracted_before' = extracted_before
            /\ cache_manager' = cache_manager
       ELSE IF futures[k].img + 1 = Len(image_hashes(comic_files[k]))
       THEN /\ futures' = [futures EXCEPT ![k] =
                             [@ EXCEPT !.st = "done", !.result = "info",
                                       !.img = @ + 1]]
            /\ extracted_before' = extracted_before \cup {comic_files[k]}
            /\ cache_manager' =
                  IF enable_cache
                  THEN SetComicCache(cache_manager, comic_files[k],
                                     Hashed(k, futures[k].img + 1))
                  ELSE cache_manager
       ELSE /\ futures' = [futures EXCEPT ![k] = [@ EXCEPT !.img = @ + 1]]
            /\ extracted_before' = extracted_before
            /\ cache_manager' = cache_manager
    /\ UNCHANGED <<scan_pc, scans, is_paused, enable_cache, comic_files, progress,
                   outcome, comic_infos>>
    /\ UNCHANGED detect_vars

\* WorkerImage without the pause wait before the image.
WorkerImageNoPauseWait(k) ==
    /\ k \in DOMAIN futures
    /\ futures[k].st = "running"
    /\ IF should_stop
       THEN /\ futures' = [futures EXCEPT ![k] =
                             [@ EXCEPT !.st = "done", !.result = "stopped"]]
            /\ extracted_before' = extracted_before
            /\ cache_manager' = cache_manager
       ELSE IF futures[k].img + 1 = Len(image_hashes(comic_files[k]))
       THEN /\ futures' = [futures EXCEPT ![k] =
                             [@ EXCEPT !.st = "done", !.result = "info",
                                       !.img = @ + 1]]
            /\ extracted_before' = extracted_before \cup {comic_files[k]}
            /\ cache_manager' =
                  IF enable_cache
                  THEN SetComicCache(cache_manager, comic_files[k],
                                     Hashed(k, futures[k].img + 1))
                  ELSE cache_manager
       ELSE /\ futures' = [futures EXCEPT ![k] = [@ EXCEPT !.img = @ + 1]]
            /\ extracted_before' = extracted_before
            /\ cache_manager' = cache_manager
    /\ UNCHANGED <<scan_pc, scans, is_paused, enable_cache, comic_files, progress,
                   outcome, comic_infos>>
    /\ UNCHANGED detect_vars

\* One round of the image loop of _process_single_comic: the pause wait, the
\* stop check (return None), the hash of the image; after the last image
\* the ComicInfo is built, the cache record is written if should_stop is not
\* set and the cache is enabled, and the ComicInfo is returned.
WorkerImage(k) ==
    /\ k \in DOMAIN futures
    /\ futures[k].st = "running"
    /\ ~is_paused \/ should_stop
    /\ IF should_stop
       THEN /\ futures' = [futures EXCEPT ![k] =
                             [@ EXCEPT !.st = "done", !.result = "stopped"]]
            /\ extracted_before' = extracted_before
            /\ cache_manager' = cache_manager
       ELSE IF futures[k].img + 1 = Len(image_hashes(comic_files[k]))
       THEN /\ futures' = [futures EXCEPT ![k] =
                             [@ EXCEPT !.st = "done", !.result = "info",
                                       !.img = @ + 1]]
            /\ extracted_before' = extracted_before \cup {comic_files[k]}
            /\ cache_manager' =
                  IF enable_cache
                  THEN SetComicCache(cache_manager, comic_files[k],
                                     Hashed(k, futures[k].img + 1))
                  ELSE cache_manager
       ELSE /\ futures' = [futures EXCEPT ![k] = [@ EXCEPT !.img = @ + 1]]
            /\ extracted_before' = extracted_before
            /\ cache_manager' = cache_manager
    /\ UNCHANGED <<scan_pc, scans, is_paused, enable_cache, comic_files, progress,
                   outcome, comic_infos>>
    /\ UNCHANGED detect_vars

\* One round of the as_completed loop without stop: the result is appended
\* if it is a ComicInfo, and progress is emitted; errors is raised only if
\* future.result() raises.
CoordTake(k) ==
    /\ scan_pc = "extract"
    /\ k \in Ready
    /\ ~should_stop
    /\ futures' = [futures EXCEPT ![k] = [@ EXCEPT !.taken = TRUE]]
    /\ IF futures[k].result = "raised"
       THEN /\ progress' = [progress EXCEPT !.errors = @ + 1]
            /\ comic_infos' = comic_infos
       ELSE /\ progress' = [progress EXCEPT !.processed_files = @ + 1]
            /\ comic_infos' = IF futures[k].result = "info"
                              THEN Append(comic_infos, comic_files[k])
                              ELSE comic_infos
    /\ UNCHANGED <<scan_pc, scans, is_paused, enable_cache, comic_files,
                   outcome, extracted_before, cache_manager>>
    /\ UNCHANGED detect_vars

\* The as_completed loop sees should_stop: executor.shutdown(wait=True,
\* cancel_futures=True) cancels the tasks not started, and break.
CoordStop ==
    /\ scan_pc = "extract"
    /\ Ready # {}
    /\ should_stop
    /\ scan_pc' = "shutdown"
    /\ futures' = [k \in DOMAIN futures |->
                     IF futures[k].st = "pending"
                     THEN [futures[k] EXCEPT !.st = "cancelled"]
                     ELSE futures[k]]
    /\ UNCHANGED <<scans, is_paused, enable_cache, comic_files, progress,
                   outcome, extracted_before, comic_infos>>
    /\ UNCHANGED detect_vars
    /\ UNCHANGED cache_manager

\* The running workers have returned: _process_comic_files returns and
\* scan_directory returns on should_stop without a signal.
ShutdownDone ==
    /\ scan_pc = "shutdown"
    /\ Running = {}
    /\ scan_pc' = "idle"
    /\ outcome' = "stopped"
    /\ UNCHANGED <<scans, is_paused, enable_cache, comic_files, futures, progress,
                   extracted_before, comic_infos>>
    /\ UNCHANGED detect_vars
    /\ UNCHANGED cache_manager

\* Every future was taken and should_stop is set: scan_directory returns.
ExtractStopped ==
    /\ scan_pc = "extract"
    /\ \A k \in DOMAIN futures : futures[k].taken
    /\ should_stop
    /\ scan_pc' = "idle"
    /\ outcome' = "stopped"
    /\ UNCHANGED <<scans, is_paused, enable_cache, comic_files, futures, progress,
                   extracted_before, comic_infos>>
    /\ UNCHANGED detect_vars
    /\ UNCHANGED cache_manager

\* DetectExtracted without the check of should_stop after extraction.
DetectExtractedDespiteStop(cfg) ==
    /\ scan_pc = "extract"
    /\ \A k \in DOMAIN futures : futures[k].taken
    /\ EnterDetect(cfg, comic_infos)
    /\ scan_pc' = "detect"
    /\ UNCHANGED <<scans, is_paused, enable_cache, comic_files, futures, progress,
                   outcome, extracted_before, cache_manager>>

\* Every future was taken and should_stop is not set: scan_directory calls
\* _detect_duplicates(comic_infos).
DetectExtracted(cfg) ==
    /\ scan_pc = "extract"
    /\ \A k \in DOMAIN futures : futures[k].taken
    /\ ~should_stop
    /\ EnterDetect(cfg, comic_infos)
    /\ scan_pc' = "detect"
    /\ UNCHANGED <<scans, is_paused, enable_cache, comic_files, futures, progress,
                   outcome, extracted_before, cache_manager>>

\* _detect_duplicates has returned: scan_completed is emitted with its groups.
EmitCompleted ==
    /\ scan_pc = "detect"
    /\ pc = "idle"
    /\ scan_pc' = "idle"
    /\ outcome' = "completed"
    /\ UNCHANGED <<scans, is_paused, enable_cache, comic_files, futures, progress,
                   extracted_before, comic_infos>>
    /\ UNCHANGED detect_vars
    /\ UNCHANGED cache_manager

\* Scanner.pause_scan.
PauseScan ==
    /\ IsScanning
    /\ ~is_paused
    /\ is_paused' = TRUE
    /\ UNCHANGED <<scan_pc, scans, enable_cache, comic_files, futures, progress,
                   outcome, extracted_before, comic_infos>>
    /\ UNCHANGED detect_vars
    /\ UNCHANGED cache_manager

\* Scanner.resume_scan.
ResumeScan ==
    /\ IsScanning
    /\ is_paused
    /\ is_paused' = FALSE
    /\ UNCHANGED <<scan_pc, scans, enable_cache, comic_files, futures, progress,
                   outcome, extracted_before, comic_infos>>
    /\ UNCHANGED detect_vars
    /\ UNCHANGED cache_manager

\* The steps of the scan thread and of the pool threads, but for the
\* comparison of a source comic.
ProgramStep ==
    \/ \E k \in 1..3 : WorkerStart(k)
    \/ \E k \in 1..3 : WorkerImage(k)
    \/ \E k \in 1..3 : CoordTake(k)
    \/ CoordStop
    \/ ShutdownDone
    \/ ExtractStopped
    \/ \E cfg \in ScanConfigs : DetectExtracted(cfg)
    \/ SkipComic
    \/ StopBreak
    \/ FinishDetect
    \/ EmitCompleted

\* The detection loop stands before a source comic it can compare: the
\* condition under which CompareSource is possible.
CompareWaits == InLoop /\ ~IsSkipped /\ ~is_paused /\ ~should_stop

NextScan ==
    \/ \E dir \in Directories : \E cache \in BOOLEAN : StartScan(dir, cache)
    \/ \E k \in 1..3 : WorkerStart(k)
    \/ \E k \in 1..3 : WorkerImage(k)
    \/ \E k \in 1..3 : CoordTake(k)
    \/ CoordStop
    \/ ShutdownDone
    \/ ExtractStopped
    \/ \E cfg \in ScanConfigs : DetectExtracted(cfg)
    \/ SkipComic
    \/ StopBreak
    \/ CompareSource
    \/ FinishDetect
    \/ EmitCompleted
    \/ PauseScan
    \/ ResumeScan
    \/ StopScan

\* scan_directory with its extraction stage, the GUI calling pause_scan,
\* resume_scan and stop_scan at any time.
SpecScan == Init /\ [][NextScan]_vars

\* SpecScan with the threads of the program scheduled: a step of the scan
\* thread or of a pool thread that stays possible is eventually taken, and
\* the detection loop does not stand forever before a source comic it can
\* compare (CompareSource takes it on, and a scan has finitely many).
SpecScanFair == SpecScan /\ WF_vars(ProgramStep) /\ []<>(~CompareWaits)

\* The settings dialog saves "enable_cache"; it can be opened while a scan
\* runs, and the workers read the setting at each test.
SaveSettings(b) ==
    /\ enable_cache # b
    /\ enable_cache' = b
    /\ UNCHANGED <<scan_pc, scans, is_paused, comic_files, futures, progress,
                   outcome, extracted_before, cache_manager, comic_infos>>
    /\ UNCHANGED detect_vars

\* Worker k is at the cache write after its last image.
AtCacheWrite(k) ==
    /\ k \in DOMAIN futures
    /\ futures[k].st = "running"
    /\ futures[k].img + 1 = Len(image_hashes(comic_files[k]))
    /\ ~is_paused
    /\ ~should_stop
    /\ enable_cache

\* The process is killed while set_comic_cache writes the cache file of
\* task k (open "wb", then pickle.dump): the file is left torn, and the
\* application starts again with an empty _memory_cache and no scan.
KillDuringCacheWrite(k) ==
    /\ scan_pc = "extract"
    /\ AtCacheWrite(k)
    /\ cache_manager' =
          [c \in CacheKeys |->
              IF c = comic_files[k]
              THEN [file |-> "torn", image_hashes |-> << >>, memory |-> FALSE]
              ELSE [cache_manager[c] EXCEPT !.memory = FALSE]]
    /\ scan_pc' = "idle"
    /\ is_paused' = FALSE
    /\ comic_files' = << >>
    /\ futures' = << >>
    /\ comic_infos' = << >>
    /\ progress' = [processed_files |-> 0, errors |-> 0]
    /\ outcome' = "none"
    /\ UNCHANGED <<scans, enable_cache, extracted_before>>
    /\ UNCHANGED detect_vars

NextCache ==
    \/ NextScan
    \/ \E b \in BOOLEAN : SaveSettings(b)
    \/ \E k \in 1..3 : KillDuringCacheWrite(k)

\* SpecScan with the settings dialog in use during scans and a process that
\* can be killed at any write of a cache file.
SpecCache == Init /\ [][NextCache]_vars

\* ------------------------------------------------ definitions for the claims
\* The Hamming distance of two hex strings of equal length, digit by digit.
RECURSIVE HexDistance(_, _)
HexDistance(h1, h2) ==
    IF h1 = << >> THEN 0
    ELSE BitCountXor(Head(h1), Head(h2)) + HexDistance(Tail(h1), Tail(h2))

\* The hex string h is within the threshold of a blacklist entry.
NearBlacklist(h, cfg) ==
    \E b \in cfg.blacklist : HexDistance(h, b) <= cfg.similarity_threshold

\* The images (by position) of comic c that are not near the blacklist.
Surviving(c, cfg) ==
    {k \in DOMAIN image_hashes(c) : ~NearBlacklist(image_hashes(c)[k], cfg)}

\* The number of distinct images of c with at least one image of d within
\* the threshold.
DistinctMatches(c, d, cfg) ==
    Cardinality({k \in Surviving(c, cfg) :
                   \E m \in Surviving(d, cfg) :
                      HexDistance(image_hashes(c)[k], image_hashes(d)[m])
                        <= cfg.similarity_threshold})

\* The symmetric link relation of the contract.
Linked(c, d, cfg) ==
    /\ c # d
    /\ DistinctMatches(c, d, cfg) >= cfg.min_similar_images
    /\ DistinctMatches(d, c, cfg) >= cfg.min_similar_images

\* The valid comics of the current scan linked to c.
LinkedTo(c) == {d \in Range(valid_comics) : Linked(c, d, config)}

Members(g) == Range(g.comics)

\* The members of all groups of the result list.
Grouped == UNION {Members(g) : g \in Range(duplicate_groups)}

\* The scan had nothing to load: no index.db, or the threshold was widened.
NoUsableIndex ==
    \/ cached_similarity_threshold = NoValue
    \/ config.similarity_threshold > cached_similarity_threshold

\* This step is the comparison of the source at comic_idx.
CompareStep ==
    /\ InLoop /\ ~IsSkipped /\ ~should_stop
    /\ comic_idx' = comic_idx + 1

\* This step is a comparison that found linked comics and formed a group.
GroupStep ==
    /\ CompareStep
    /\ Surviving(valid_comics[comic_idx], config) # {}
    /\ valid_similar_comics' # << >>

\* The last element of the result list after the step.
NewGroup == duplicate_groups'[Len(duplicate_groups')]

\* The groups of the result list before the step that share a member with S.
Touching(S) == {g \in Range(duplicate_groups) : Members(g) \cap S # {}}

\* ---------------------------------------------------------------------- C1
\* C1, per source: in a scan with no usable index, comparing source i forms
\* a group iff i has a linked comic, and the comics the step puts with i are
\* exactly the comics linked to i (plus what the groups these comics were
\* already in bring along).
C1_SourceStep ==
    (CompareStep /\ NoUsableIndex) =>
        LET i == valid_comics[comic_idx]
            direct == {i} \cup LinkedTo(i)
        IN  IF Surviving(i, config) = {}
            THEN duplicate_groups' = duplicate_groups
            ELSE /\ {valid_comics[j] : j \in Range(valid_similar_comics')} = LinkedTo(i)
                 /\ IF LinkedTo(i) = {}
                    THEN duplicate_groups' = duplicate_groups
                    ELSE Members(NewGroup) =
                           direct \cup UNION {Members(g) : g \in Touching(direct)}

\* C1, result: in a scan with no usable index a comic without a linked comic
\* is in no group.
C1_Unlinked ==
    NoUsableIndex => \A c \in Grouped : LinkedTo(c) # {}

\* C1: a comic j is put into the group of source i iff both distinct-match
\* counts between i and j reach min_similar_images, and a comic with no such
\* neighbour appears in no group (scans with no usable match index).
C1_LinkedIffBothCounts == [][C1_SourceStep]_vars /\ []C1_Unlinked

\* Witness of C1: a finished scan without index at minimum 2 that compared
\* comic 3 (two images matching the one image of comic 4: counts 2 and 1)
\* and returned the single group of comics 1 and 2.
C1_Witness ==
    /\ pc = "idle" /\ ~stopped /\ NoUsableIndex
    /\ config.min_similar_images = 2
    /\ Len(valid_comics) = 4
    /\ processed = Comics
    /\ DistinctMatches(3, 4, config) = 2
    /\ DistinctMatches(4, 3, config) = 1
    /\ {Members(g) : g \in Range(duplicate_groups)} = {{1, 2}}

\* ---------------------------------------------------------------------- C2
\* C2: at every point of the loop and in the returned result, no comic is a
\* member of two groups of the result list.
C2_GroupsDisjoint ==
    \A m, n \in DOMAIN duplicate_groups :
        m # n => Members(duplicate_groups[m]) \cap Members(duplicate_groups[n]) = {}

\* Witness of C2: a scan that replayed a cached group, compared at least two
\* sources of which one merged, and holds two groups.
C2_Witness ==
    /\ valid_cached_groups # << >>
    /\ Len(duplicate_groups) = 2
    /\ Cardinality(processed) >= 2
    /\ processed \subseteq Grouped
    /\ pc = "idle"

\* ---------------------------------------------------------------------- C3
\* C3, merge step: the groups that share a member with the new group are
\* contained in it with their comics and their evidence and leave the list,
\* the other groups stay, and the map sends every member to the new group.
C3_MergeStep ==
    GroupStep =>
        /\ \A g \in Range(duplicate_groups) :
              IF Members(g) \cap Members(NewGroup) # {}
              THEN /\ Members(g) \subseteq Members(NewGroup)
                   /\ g.similar_hash_groups \subseteq NewGroup.similar_hash_groups
                   /\ g \notin Range(SubSeq(duplicate_groups', 1,
                                              Len(duplicate_groups') - 1))
              ELSE g \in Range(duplicate_groups')
        /\ Len(duplicate_groups') =
              Len(duplicate_groups) + 1
                - Cardinality({n \in DOMAIN duplicate_groups :
                     Members(duplicate_groups[n]) \cap Members(NewGroup) # {}})
        /\ \A c \in Members(NewGroup) :
              c \in DOMAIN comic_to_group_map' /\ comic_to_group_map'[c] = NewGroup

\* C3, result: after a complete scan with no usable index two linked comics
\* are in the same group (so A-B and B-C put A, B and C in one group).
C3_LinkedTogether ==
    (pc = "idle" /\ ~stopped /\ NoUsableIndex /\ runs > 0) =>
        \A c \in Range(valid_comics) : \A d \in LinkedTo(c) :
            \E g \in Range(duplicate_groups) : {c, d} \subseteq Members(g)

\* C3: merging is transitive.
C3_TransitiveMerge == [][C3_MergeStep]_vars /\ []C3_LinkedTogether

\* Witness of C3: comics 1-2 and 2-3 are linked, 1-3 are not, and a finished
\* scan returned one group holding the three.
C3_Witness ==
    /\ pc = "idle" /\ ~stopped /\ NoUsableIndex
    /\ {1, 2, 3} \subseteq Range(valid_comics)
    /\ Linked(1, 2, config) /\ Linked(2, 3, config) /\ ~Linked(1, 3, config)
    /\ \E g \in Range(duplicate_groups) : {1, 2, 3} \subseteq Members(g)

\* ------------------------------------------------------ the from-scratch scan
RECURSIVE DetectLoop(_, _, _, _, _, _)
\* The detection loop from position i to its end, without stop.
DetectLoop(st, valid, skipped, i, cfg, order) ==
    IF i > Len(valid) THEN st
    ELSE IF valid[i] \in skipped /\ valid[i] \notin st.recall_comic_cache_keys
    THEN DetectLoop(st, valid, skipped, i + 1, cfg, order)
    ELSE DetectLoop(CompareComic(st, valid, skipped, i, cfg, order),
                    valid, skipped, i + 1, cfg, order)

\* The groups _detect_duplicates(infos) returns under cfg when there is no
\* index.db and the scan is not stopped.
FromScratch(infos, cfg) ==
    LET valid == ValidComics(infos, cfg)
    IN  IF Len(valid) < 2 \/ Corpus(valid, cfg) = << >> THEN << >>
        ELSE DetectLoop(
               [duplicate_groups |-> << >>, comic_to_group_map |-> << >>,
                similar_comic_cache_dict |-> << >>,
                recall_comic_cache_keys |-> {},
                valid_similar_comics |-> << >>, index |-> NoIndex],
               valid, {}, 1, cfg, [c \in Comics |-> c]).duplicate_groups

\* A scan has returned (not by break) and these are its groups.
Returned == pc = "idle" /\ runs > 0 /\ ~stopped

\* ---------------------------------------------------------------------- C4
\* C4: in the returned result every member of a group has another member of
\* the same group with which both distinct-match counts reach
\* min_similar_images.
C4_EveryMemberLinked ==
    Returned =>
        \A g \in Range(duplicate_groups) : \A c \in Members(g) :
            \E d \in Members(g) : Linked(c, d, config)

\* In a scan that replayed no cached group every member has such a partner,
\* at every point of the loop.
FreshGroupsLinked ==
    (valid_cached_groups = << >>) =>
        \A g \in Range(duplicate_groups) : \A c \in Members(g) :
            \E d \in Members(g) : Linked(c, d, config)

\* ---------------------------------------------------------------------- C5
\* C5: with threshold and minimum as stored in the index, a scan that was
\* not stopped returns the membership a from-scratch scan of the same
\* comics returns.
C5_IncrementalEqualsScratch ==
    (/\ Returned
     /\ cached_similarity_threshold = config.similarity_threshold
     /\ cached_min_similar_images = config.min_similar_images) =>
        {Members(g) : g \in Range(duplicate_groups)}
          = {Members(g) : g \in Range(FromScratch(comic_infos, config))}

\* ---------------------------------------------------------------------- C6
\* A step that ends a scan: the early return, the break or the end of the loop.
RunEnds == pc' = "idle" /\ runs' > 0 /\ (pc = "loop" \/ runs' = runs + 1)

\* The threshold index.db held when the ending scan began (NoValue: no file).
StoredThreshold ==
    IF pc = "loop" THEN cached_similarity_threshold
    ELSE IF index.exists THEN index.similarity_threshold ELSE NoValue

\* idx holds nothing but the groups and vectors of the scan whose state is
\* (groups, dict, done): every vector is of a comic compared in this scan and
\* every group was formed by a comic compared in this scan.
OnlyThisRun(idx, groups, dict, done) ==
    /\ Range(idx.cached_duplicate_groups) \subseteq
          {[comic_cache_keys |-> g.comics,
            similar_hash_groups |-> g.similar_hash_groups] : g \in Range(groups)}
    /\ DOMAIN idx.similar_comic_cache_dict \subseteq DOMAIN dict \cap done
    /\ \A k \in DOMAIN idx.similar_comic_cache_dict :
          idx.similar_comic_cache_dict[k] = dict[k]
    /\ \A g \in Range(groups) : Members(g) \cap done # {}

\* What C6 promises of a scan: nothing replayed, nothing skippable, and the
\* file left behind holds this scan's data only.
C6_NothingCached ==
    /\ valid_cached_groups' = << >>
    /\ skipped_comic_cache_keys' = {}
    /\ OnlyThisRun(index', duplicate_groups', similar_comic_cache_dict', processed')

\* The scan loaded index.db and entered the detection loop.
LoadedIndex == Len(valid_comics) >= 2 /\ Corpus(valid_comics, config) # << >>

\* C6 as stated: every scan whose threshold is greater than the stored one
\* (or that finds none stored) ends with nothing replayed, nothing skippable
\* and an index.db holding only its own groups and vectors.
C6_WidenedIndexOnlyThisRun ==
    [][(RunEnds /\ (StoredThreshold = NoValue
                     \/ config'.similarity_threshold > StoredThreshold))
         => C6_NothingCached]_vars

\* C6 for the scans that load index.db and enter the loop: nothing is
\* replayed or skippable at any point of the scan, the file holds only this
\* scan's data when it ends, and a scan that was not stopped returns what a
\* from-scratch scan returns.
C6_WidenedLoopOnlyThisRun ==
    /\ [][(RunEnds /\ LoadedIndex'
             /\ (StoredThreshold = NoValue
                   \/ config'.similarity_threshold > StoredThreshold))
            => C6_NothingCached]_vars
    /\ [](( /\ runs > 0
            /\ LoadedIndex
            /\ NoUsableIndex ) =>
              /\ valid_cached_groups = << >>
              /\ skipped_comic_cache_keys = {}
              /\ DOMAIN similar_comic_cache_dict \subseteq processed
              /\ \A g \in Range(duplicate_groups) : Members(g) \cap processed # {}
              /\ Returned =>
                   {<<Members(g), g.similar_hash_groups>> : g \in Range(duplicate_groups)}
                     = {<<Members(g), g.similar_hash_groups>> :
                          g \in Range(FromScratch(comic_infos, config))})

\* A scan with a widened threshold has ended with groups, after a scan at the
\* lower threshold had left groups in index.db.
C6_Witness ==
    /\ Returned
    /\ LoadedIndex
    /\ cached_similarity_threshold # NoValue
    /\ config.similarity_threshold > cached_similarity_threshold
    /\ duplicate_groups # << >>
    /\ index = PersistedIndex(similar_comic_cache_dict, duplicate_groups, config)

\* ---------------------------------------------------------------------- C7
\* A step that loads index.db: the start of a scan with two valid comics.
LoadStep == pc = "idle" /\ runs' = runs + 1 /\ Len(valid_comics') >= 2

\* The stored minimum is above the configured one, or nothing is stored.
MinLowered == ~index.exists \/ config'.min_similar_images < index.min_similar_images

\* The keys of dict whose vector has every count below the minimum of cfg.
BelowMinimum(dict, cfg) ==
    {k \in DOMAIN dict : \A n \in Range(dict[k]) : n < cfg.min_similar_images}

\* C7 as stated: when the minimum was lowered the cached groups are dropped,
\* the cached vectors are kept and the skip set is the comics whose cached
\* vector lies below the current minimum.
C7_MinLoweredKeepsVectors ==
    [][(LoadStep /\ MinLowered) =>
          /\ valid_cached_groups' = << >>
          /\ duplicate_groups' = << >>
          /\ similar_comic_cache_dict' = index.similar_comic_cache_dict
          /\ skipped_comic_cache_keys' =
                BelowMinimum(index.similar_comic_cache_dict, config')]_vars

\* C7 with the threshold rule taken into account: the cached groups are
\* dropped and no group of the scan is a replayed one; the cached vectors are
\* kept, and the skip set taken from them at the current minimum, unless the
\* threshold was widened as well, when the vectors are dropped too.
C7_MinLoweredDropsGroups ==
    /\ [][(LoadStep /\ MinLowered) =>
             /\ valid_cached_groups' = << >>
             /\ duplicate_groups' = << >>
             /\ IF index.exists
                   /\ config'.similarity_threshold > index.similarity_threshold
                THEN /\ similar_comic_cache_dict' = << >>
                     /\ skipped_comic_cache_keys' = {}
                ELSE /\ similar_comic_cache_dict' = index.similar_comic_cache_dict
                     /\ skipped_comic_cache_keys' =
                           BelowMinimum(index.similar_comic_cache_dict, config')]_vars
    /\ []((/\ runs > 0
           /\ LoadedIndex
           /\ cached_min_similar_images # NoValue
           /\ config.min_similar_images < cached_min_similar_images) =>
             /\ valid_cached_groups = << >>
             /\ \A g \in Range(duplicate_groups) : Members(g) \cap processed # {}
             /\ \A c \in skipped_comic_cache_keys :
                   /\ c \in DOMAIN similar_comic_cache_dict
                   /\ c \in processed
                        \/ c \in BelowMinimum(similar_comic_cache_dict, config))

\* A scan with a lowered minimum and an unchanged threshold has ended: the
\* file it loaded held groups, it skipped a comic on its cached vector and
\* compared another one whose cached counts reach the new minimum.
C7_Witness ==
    /\ Returned
    /\ LoadedIndex
    /\ cached_min_similar_images # NoValue
    /\ config.min_similar_images < cached_min_similar_images
    /\ config.similarity_threshold = cached_similarity_threshold
    /\ skipped_comic_cache_keys # {}
    /\ processed # {}
    /\ duplicate_groups # << >>

\* ---------------------------------------------------------------------- C8
\* A scan was stopped with groups found, and the next scan starts on the same
\* comics under the same configuration.
RestartStep ==
    /\ pc = "idle"
    /\ stopped
    /\ duplicate_groups # << >>
    /\ runs' = runs + 1
    /\ config' = config
    /\ comic_infos' = comic_infos

\* C8: the restarted scan replays every group the stopped scan had found and
\* skips its members.
C8_RestartReplaysGroup ==
    [][RestartStep =>
          \A g \in Range(duplicate_groups) :
              /\ \E r \in Range(valid_cached_groups') : Members(r) = Members(g)
              /\ Members(g) \subseteq skipped_comic_cache_keys']_vars

\* The same under a blacklist that is not empty.
RestartReplaysUnderBlacklist ==
    [][(RestartStep /\ config.blacklist # {}) =>
          \A g \in Range(duplicate_groups) :
              /\ \E r \in Range(valid_cached_groups') : Members(r) = Members(g)
              /\ Members(g) \subseteq skipped_comic_cache_keys']_vars

\* ---------------------------------------------------------------------- C9
\* C9: after the threshold was lowered (minimum unchanged, index kept) every
\* returned group lies, with its evidence, inside a group of the from-scratch
\* scan at the lower threshold.
C9_NarrowedSubsetOfScratch ==
    (/\ Returned
     /\ cached_similarity_threshold # NoValue
     /\ config.similarity_threshold < cached_similarity_threshold
     /\ cached_min_similar_images = config.min_similar_images) =>
        \A g \in Range(duplicate_groups) :
            \E f \in Range(FromScratch(comic_infos, config)) :
                /\ Members(g) \subseteq Members(f)
                /\ g.similar_hash_groups \subseteq f.similar_hash_groups

\* --------------------------------------------------------------------- C10
\* The hex string of the corpus entry e.
EntryHash(e) == image_hashes(valid_comics[e.comic_idx])[e.image_idx]

\* The match counts of c over the images that are not near the blacklist,
\* one for every valid comic that c matches at all.
SurvivingCounts(c) ==
    {<<d, Min2(DistinctMatches(c, d, config), DistinctMatches(d, c, config))>> :
        d \in {d \in Range(valid_comics) \ {c} : DistinctMatches(c, d, config) > 0}}

\* C10: no fingerprint within the threshold of a blacklist entry is in the
\* corpus, is counted in the match-count vector of a comic compared in this
\* scan, or is an endpoint of an evidence pair of a group, new or replayed.
C10_BlacklistExcluded ==
    runs > 0 =>
      /\ \A k \in DOMAIN Corpus(valid_comics, config) :
            ~NearBlacklist(EntryHash(Corpus(valid_comics, config)[k]), config)
      /\ \A g \in Range(duplicate_groups) : \A e \in g.similar_hash_groups :
            ~NearBlacklist(e[1], config) /\ ~NearBlacklist(e[2], config)
      /\ \A c \in processed :
            Surviving(c, config) # {} =>
               /\ c \in DOMAIN similar_comic_cache_dict
               /\ Len(similar_comic_cache_dict[c]) = Cardinality(SurvivingCounts(c))
               /\ \A p \in SurvivingCounts(c) :
                     \E n \in DOMAIN similar_comic_cache_dict[c] :
                         similar_comic_cache_dict[c][n] = p[2]
               /\ \A n \in DOMAIN similar_comic_cache_dict[c] :
                     \E p \in SurvivingCounts(c) :
                         similar_comic_cache_dict[c][n] = p[2]

\* A scan under a blacklist has returned a replayed group, and a member of
\* it still carries a cached vector counting more images than the blacklist
\* now leaves it: the index was written under another blacklist.
C10_Witness ==
    /\ Returned
    /\ config.blacklist # {}
    /\ cached_similarity_threshold = config.similarity_threshold
    /\ duplicate_groups # << >>
    /\ \E g \in Range(valid_cached_groups) : \E c \in Members(g) :
          /\ c \notin processed
          /\ c \in DOMAIN similar_comic_cache_dict
          /\ \E n \in DOMAIN similar_comic_cache_dict[c] :
                similar_comic_cache_dict[c][n] > Cardinality(Surviving(c, config))

\* --------------------------------------------------------------------- C11
\* idx holds the vectors dict and the groups (member keys and evidence, in
\* the order of the list).
HoldsSnapshot(idx, dict, groups) ==
    /\ idx.similar_comic_cache_dict = dict
    /\ DOMAIN idx.cached_duplicate_groups = DOMAIN groups
    /\ \A n \in DOMAIN groups :
          /\ idx.cached_duplicate_groups[n].comic_cache_keys = groups[n].comics
          /\ idx.cached_duplicate_groups[n].similar_hash_groups
               = groups[n].similar_hash_groups

\* idx, if it exists, was written under the threshold and minimum of cfg.
HoldsSettings(idx, cfg) ==
    idx.exists =>
       /\ idx.similarity_threshold = cfg.similarity_threshold
       /\ idx.min_similar_images = cfg.min_similar_images

C12_IndexNeverTorn == index = NoIndex \/ index.exists

\* --------------------------------------------------------------------- C13
\* The loop observes should_stop at the boundary before a comic it would
\* compare, and the detection returns.
StopObserved == InLoop /\ ~IsSkipped /\ should_stop /\ pc' = "idle"

\* The cached group g of index.db is valid for the current scan: the file
\* was written under the current settings, all members are valid comics and
\* every member is linked to another member.
ValidInIndex(g) ==
    /\ index.similarity_threshold = config.similarity_threshold
    /\ index.min_similar_images = config.min_similar_images
    /\ Range(g.comic_cache_keys) \subseteq Range(valid_comics)
    /\ \A c \in Range(g.comic_cache_keys) :
          \E d \in Range(g.comic_cache_keys) : Linked(c, d, config)

\* On stop no further source is compared, index.db is rewritten with the
\* groups finalized so far and these are the groups returned.
StopPersistsAndReturns ==
    [][StopObserved =>
          /\ processed' = processed
          /\ duplicate_groups' = duplicate_groups
          /\ index'.exists
          /\ HoldsSnapshot(index', similar_comic_cache_dict, duplicate_groups)
          /\ HoldsSettings(index', config)]_vars

\* C13: as StopPersistsAndReturns, and the rewrite destroys no valid group
\* of index.db: each one is still there, possibly inside a larger group.
C13_StopKeepsValidGroups ==
    [][StopObserved =>
          /\ processed' = processed
          /\ duplicate_groups' = duplicate_groups
          /\ index'.exists
          /\ HoldsSnapshot(index', similar_comic_cache_dict, duplicate_groups)
          /\ HoldsSettings(index', config)
          /\ \A g \in Range(index.cached_duplicate_groups) :
                ValidInIndex(g) =>
                   \E h \in Range(index'.cached_duplicate_groups) :
                       Range(g.comic_cache_keys) \subseteq Range(h.comic_cache_keys)]_vars

\* ---------------------------------------------------------------- C14
\* The stop flag is set while scan_directory is in its extraction stage.
StopInExtraction == should_stop /\ scan_pc \in {"extract", "shutdown"}

\* C14: once the stop flag is set during extraction, the coordinator takes no
\* further result (the comics not yet taken are abandoned, the results in
\* flight are dropped), detection is never started for this scan, index.db
\* is left as it is, and the scan ends without a completion event.
C14_StopAbandonsExtraction ==
    [][StopInExtraction =>
          /\ comic_infos' = comic_infos
          /\ progress' = progress
          /\ \A k \in DOMAIN futures : futures'[k].taken = futures[k].taken
          /\ scan_pc' \in {"extract", "shutdown", "idle"}
          /\ pc' = pc
          /\ runs' = runs
          /\ index' = index
          /\ outcome' \in {"none", "stopped"}]_vars

\* A scan stopped in extraction has ended: a task was cancelled, a finished
\* result was never taken, and index.db of the scan before is there.
C14_Witness ==
    /\ scan_pc = "idle"
    /\ outcome = "stopped"
    /\ index.exists
    /\ \E k \in DOMAIN futures : futures[k].st = "cancelled"
    /\ \E k \in DOMAIN futures : futures[k].result = "info" /\ ~futures[k].taken

\* ---------------------------------------------------------------- C15
\* A scan is running, the pause flag is set and the stop flag is not.
Paused == IsScanning /\ is_paused /\ ~should_stop

PausedBetweenImages ==
    /\ Paused
    /\ \E k \in Running : futures[k].img = 1

\* ---------------------------------------------------------------- C16
\* C16: a running scan that is paused and has received stop_scan ends,
\* is_scanning becoming false, in the extraction stage as in the detection
\* stage, whether or not resume_scan is ever called.
C16_PausedStopTerminates ==
    (IsScanning /\ is_paused /\ should_stop) ~> ~IsScanning

\* A scan has ended with both flags still set, a worker having left its
\* pause wait on the stop flag.
C16_Witness ==
    /\ ~IsScanning
    /\ is_paused
    /\ should_stop
    /\ outcome = "stopped"
    /\ \E k \in DOMAIN futures : futures[k].result = "stopped"

\* A scan has ended with both flags still set, stopped in its detection loop.
PausedStopInDetection ==
    /\ ~IsScanning
    /\ is_paused
    /\ should_stop
    /\ outcome = "completed"
    /\ stopped

\* ---------------------------------------------------------------- C17
\* A pool thread enters _process_single_comic for task k.
CallStarts(k) ==
    /\ k \in DOMAIN futures
    /\ futures[k].st = "pending"
    /\ k \in DOMAIN futures'
    /\ futures'[k].st \in {"running", "done"}

\* C17: with the cache enabled, a call of _process_single_comic for a comic
\* (same path, mtime and hash algorithm) that an earlier call extracted with
\* success returns at once with the ComicInfo, no image read or hashed.
C17_SecondCallFromCache ==
    [][\A k \in 1..3 :
          CallStarts(k) /\ enable_cache /\ comic_files[k] \in extracted_before
             => /\ futures'[k].st = "done"
                /\ futures'[k].result = "info"]_vars

\* ---------------------------------------------------------------- C18
\* The tasks whose _process_single_comic failed and whose result the
\* coordinator has taken.
FailedTaken ==
    {k \in DOMAIN futures : futures[k].taken /\ futures[k].result = "failed"}

\* A comic whose extraction failed is not among the comics handed to
\* detection, and the coordinator goes on to the other results.
FailedComicsExcluded ==
    /\ \A k \in DOMAIN futures :
          futures[k].result = "failed" => comic_files[k] \notin Range(comic_infos)
    /\ scan_pc = "extract" /\ ~should_stop => \A k \in Ready : ENABLED CoordTake(k)

\* C18: every comic whose extraction failed is counted in progress.errors,
\* is not among the comics handed to detection, and the scan goes on.
C18_FailedComicsCounted ==
    /\ progress.errors = Cardinality(FailedTaken)
    /\ FailedComicsExcluded

\* ---------------------------------------------------------------- C19
\* A scan has ended otherwise than by a stop during extraction.
ScanEnded == scan_pc = "idle" /\ scans > 0 /\ outcome # "stopped"

\* No task of the scan returned a ComicInfo.
NothingExtracted == \A k \in DOMAIN futures : futures[k].result # "info"

\* scan_error is emitted exactly by the scans that found no comic file.
ErrorIffNoFiles == ScanEnded => (outcome = "error" <=> comic_files = << >>)

\* C19: a scan ends with scan_error exactly if no comic was found or no
\* comic could be extracted; every other scan ends with scan_completed or
\* by a stop.
C19_ErrorIffNothingExtracted ==
    ScanEnded =>
       /\ outcome \in {"error", "completed"}
       /\ outcome = "error" <=> (comic_files = << >> \/ NothingExtracted)

\* ---------------------------------------------------------------- C20
\* The comics other than c with an image within the threshold of an image
\* of c.
MatchedBy(c) ==
    {d \in Range(valid_comics) \ {c} : DistinctMatches(c, d, config) >= 1}

\* C20, as first stated: the comparison of source i looks at the comics
\* after i only, so that each pair of comics is compared once, by its
\* lower-indexed comic.
C20_OnlyLaterComics ==
    [][CompareStep /\ Surviving(valid_comics[comic_idx], config) # {} =>
          \A j \in Range(valid_similar_comics') : j > comic_idx]_vars

\* C20: the comparison of source i looks at the images of every comic of
\* the corpus, before i as well as after it: the comics it finds linked are
\* all the comics linked to i, and its match-count vector has one entry for
\* every other comic that i matches in an image.
C20_ComparedAgainstAll ==
    [][CompareStep /\ Surviving(valid_comics[comic_idx], config) # {} =>
          LET i == valid_comics[comic_idx]
          IN  /\ {valid_comics[j] : j \in Range(valid_similar_comics')} = LinkedTo(i)
              /\ Len(similar_comic_cache_dict'[i]) = Cardinality(MatchedBy(i))]_vars

\* A source has just been compared and found linked to a comic before it.
C20_Witness ==
    /\ pc = "loop"
    /\ comic_idx > 1
    /\ valid_comics[comic_idx - 1] \in processed
    /\ Surviving(valid_comics[comic_idx - 1], config) # {}
    /\ \E j \in Range(valid_similar_comics) : j < comic_idx - 1

\* ---------------------------------------------------------------- C21
\* The evidence pairs of a cached group that survive the re-filter: within
\* the threshold, neither endpoint near the blacklist, and the endpoints
\* fingerprints of two different members that are still present.
SurvivingEvidence(g, present, cfg) ==
    {e \in g.similar_hash_groups :
        /\ e[3] <= cfg.similarity_threshold
        /\ ~NearBlacklist(e[1], cfg)
        /\ ~NearBlacklist(e[2], cfg)
        /\ \E c, d \in Range(g.comic_cache_keys) \cap present :
              /\ c # d
              /\ e[1] \in Range(image_hashes(c))
              /\ e[2] \in Range(image_hashes(d))}

\* The members of a cached group that are still present and have at least
\* min_similar_images images whose fingerprint is an endpoint of a
\* surviving evidence pair.
Qualified(g, present, cfg) ==
    LET ends == UNION {{e[1], e[2]} : e \in SurvivingEvidence(g, present, cfg)}
    IN  {c \in Range(g.comic_cache_keys) \cap present :
           Cardinality({k \in DOMAIN image_hashes(c) : image_hashes(c)[k] \in ends})
             >= cfg.min_similar_images}

\* The member sets of the groups a detection replays, given the groups it
\* loaded: the qualified members of every group that has two of them.
ReplayedAsClaimed ==
    LET loaded == LoadIndex(index, config').cached_duplicate_groups
        present == Range(valid_comics')
    IN  {Members(r) : r \in Range(valid_cached_groups')}
          = {Qualified(g, present, config') : g \in
               {h \in Range(loaded) :
                  Cardinality(Qualified(h, present, config')) >= 2}}

\* C21: the replay keeps a cached group iff two of its members qualify, with
\* exactly the qualified members; so a group replayed with unchanged comics
\* and settings, the blacklist empty or not, is kept whole.
C21_ReplayKeepsQualified ==
    [][LoadStep /\ Len(valid_comics') >= 2 => ReplayedAsClaimed]_vars

\* The same for the detections run with a blacklist that is not empty.
ReplayKeepsQualifiedUnderBlacklist ==
    [][LoadStep /\ Len(valid_comics') >= 2 /\ config'.blacklist # {}
          => ReplayedAsClaimed]_vars

\* ---------------------------------------------------------------- C22
\* The comic that this step processes as a source.
SourceOfStep == CHOOSE c \in processed' \ processed : TRUE

\* This step processes a comic as a source.
SourceStep == pc = "loop" /\ processed' # processed

\* The groups of the result list that were discovered in this run.
DiscoveredGroups == Range(duplicate_groups) \ Range(valid_cached_groups)

\* At the start of a detection: the skippable comics are the members of the
\* replayed groups and the comics whose loaded vector has every count below
\* the minimum; they stand last in the processing order; the result list
\* starts with the replayed groups and nothing else.
SkippableAtStart ==
    LET present == Range(valid_comics')
        in_group == UNION {Members(g) : g \in Range(valid_cached_groups')}
        low == {k \in DOMAIN similar_comic_cache_dict' :
                  \A n \in DOMAIN similar_comic_cache_dict'[k] :
                     similar_comic_cache_dict'[k][n] < config'.min_similar_images}
    IN  /\ skipped_comic_cache_keys' \cap present = (in_group \cup low) \cap present
        /\ \A a, b \in DOMAIN valid_comics' :
              a < b /\ valid_comics'[a] \in skipped_comic_cache_keys'
                 => valid_comics'[b] \in skipped_comic_cache_keys'
        /\ duplicate_groups' = valid_cached_groups'

\* A skippable comic is processed as a source only after every comic that
\* is not skippable, and only if a group discovered in this run holds it.
SkippableAsSource ==
    SourceOfStep \in skipped_comic_cache_keys =>
       /\ Range(valid_comics) \ skipped_comic_cache_keys \subseteq processed
       /\ SourceOfStep \in recall_comic_cache_keys
       /\ \E g \in DiscoveredGroups : SourceOfStep \in Members(g)

\* C22: a comic is skippable exactly as a member of a replayed group or by
\* a cached vector with every count below the minimum; the comics that are
\* not skippable are processed first; a skippable comic is processed as a
\* source only when recalled into a group discovered earlier in the run;
\* a cached vector creates no group.
C22_SkippableLast ==
    /\ [][LoadStep => SkippableAtStart]_vars
    /\ [][SourceStep => SkippableAsSource]_vars

\* A skippable comic has been processed as a source after its recall, while
\* another skippable comic has been passed over.
C22_Witness ==
    /\ pc = "loop"
    /\ processed \cap skipped_comic_cache_keys # {}
    /\ \E k \in 1..(comic_idx - 1) :
          k \in DOMAIN valid_comics /\ valid_comics[k] \notin processed

\* ---------------------------------------------------------------- C23
\* The loop stands at a skippable comic that has not been recalled.
AtSkipped == InLoop /\ IsSkipped

\* C23, as first stated: once the loop has reached a skippable comic that
\* was not recalled, no later comic is processed as a source: every source
\* has all the comics before it in the order processed.
C23_StopsAtSkipped ==
    [][SourceStep =>
          \A k \in 1..(comic_idx - 1) : valid_comics[k] \in processed]_vars

\* C23: at a skippable comic that was not recalled the loop passes over
\* this one comic and goes on with the next: nothing is compared or
\* written, and the comics after it that were recalled are still processed
\* as sources.
C23_SkipContinues ==
    /\ [][AtSkipped /\ (pc' # pc \/ comic_idx' # comic_idx) =>
             /\ pc' = "loop"
             /\ comic_idx' = comic_idx + 1
             /\ processed' = processed
             /\ duplicate_groups' = duplicate_groups
             /\ similar_comic_cache_dict' = similar_comic_cache_dict
             /\ index' = index]_vars
    /\ [][SourceStep =>
             /\ SourceOfStep = valid_comics[comic_idx]
             /\ \A k \in 1..(comic_idx - 1) :
                   \/ valid_comics[k] \in processed
                   \/ valid_comics[k] \in skipped_comic_cache_keys]_vars

\* A recalled comic has been processed as a source after the loop passed
\* over a skippable comic standing before it.
C23_Witness ==
    /\ pc = "loop"
    /\ \E k, j \in DOMAIN valid_comics :
          /\ k < j /\ j < comic_idx
          /\ valid_comics[k] \in skipped_comic_cache_keys \ processed
          /\ valid_comics[j] \in processed

\* ---------------------------------------------------------------- C24
\* The two fingerprints of evidence pair e belong to two different members
\* of group g.
EvidenceBetweenMembers(e, g) ==
    \E c, d \in Members(g) :
        /\ c # d
        /\ e[1] \in Range(image_hashes(c))
        /\ e[2] \in Range(image_hashes(d))

\* C24: every group of the result list has at least two members, and each
\* of its evidence pairs lies between two different comics that are both
\* members of the group: for new, merged and replayed groups alike.
C24_EvidenceBetweenMembers ==
    \A g \in Range(duplicate_groups) :
        /\ Cardinality(Members(g)) >= 2
        /\ \A e \in g.similar_hash_groups : EvidenceBetweenMembers(e, g)

\* The same for the detections that had no cached group to replay.
EvidenceBetweenMembersNoReplay ==
    valid_cached_groups = << >> =>
       \A g \in Range(duplicate_groups) :
           /\ Cardinality(Members(g)) >= 2
           /\ \A e \in g.similar_hash_groups : EvidenceBetweenMembers(e, g)

\* ---------------------------------------------------------------- C25
\* The fingerprint pairs within the threshold between comic c and the
\* comics linked to it, blacklisted images left out: {h1, h2} with the
\* distance.
ObservedPairs(c) ==
    {<<{image_hashes(c)[k], image_hashes(d)[m]},
       HexDistance(image_hashes(c)[k], image_hashes(d)[m])>> :
        <<d, k, m>> \in
           {t \in LinkedTo(c) \X (1..3) \X (1..3) :
              /\ t[2] \in Surviving(c, config)
              /\ t[3] \in Surviving(t[1], config)
              /\ HexDistance(image_hashes(c)[t[2]], image_hashes(t[1])[t[3]])
                   <= config.similarity_threshold}}

\* The evidence of the groups that the new group took over by merging.
MergedEvidence ==
    UNION {g.similar_hash_groups : g \in Touching(Members(NewGroup))}

\* C25: the evidence that a group formed from source i adds to what it
\* takes over from merged groups is exactly the fingerprint pairs within
\* the threshold between i and its linked comics, each as one triple
\* (h1, h2, distance) with h1 the smaller hex string and distance their
\* Hamming distance.
C25_EvidenceOfSource ==
    [][GroupStep =>
          LET i == valid_comics[comic_idx]
              evidence == NewGroup.similar_hash_groups
          IN  /\ \A e \in evidence \ MergedEvidence :
                    /\ ~HexLess(e[2], e[1])
                    /\ e[3] = HexDistance(e[1], e[2])
                    /\ e[3] <= config.similarity_threshold
                    /\ <<{e[1], e[2]}, e[3]>> \in ObservedPairs(i)
              /\ \A o \in ObservedPairs(i) :
                    Cardinality({e \in evidence : {e[1], e[2]} = o[1]}) = 1]_vars

\* A group formed in this run holds a pair of two different hex strings at
\* distance 1, the smaller one first, and a pair of equal ones.
C25_Witness ==
    /\ pc = "loop"
    /\ \E g \in DiscoveredGroups :
          /\ \E e \in g.similar_hash_groups : e[3] = 1 /\ HexLess(e[1], e[2])
          /\ \E e \in g.similar_hash_groups : e[3] = 0

\* ---------------------------------------------------------------- C26
\* The members of g stand in non-increasing order of image count.
ByImageCount(g) ==
    \A a, b \in DOMAIN g.comics :
        a < b => Len(image_hashes(g.comics[a])) >= Len(image_hashes(g.comics[b]))

C27_InvalidRecordReextracted ==
    [][\A k \in 1..3 :
          /\ CallStarts(k)
          /\ enable_cache
          /\ comic_files[k] \in CacheKeys
          /\ cache_manager[comic_files[k]].file = "torn"
          => /\ ~GetComicCache(cache_manager, comic_files[k]).found
             /\ futures'[k].st = "running"]_vars

\* A call for a comic whose cache file is torn has started with the cache
\* enabled.
TornRecordCalled ==
    \E k \in DOMAIN futures :
        /\ futures[k].result = "failed"
        /\ enable_cache
        /\ comic_files[k] \in CacheKeys
        /\ cache_manager[comic_files[k]].file = "torn"

\* get_comic_cache returns no data for a torn cache file.
TornRecordIsMiss ==
    \A c \in CacheKeys :
        cache_manager[c].file = "torn" => ~GetComicCache(cache_manager, c).found

\* An index.db that cannot be read makes detection start with no cached
\* group and no cached vector.
UnreadableIndexStartsEmpty ==
    [][pc = "idle" /\ runs' = runs + 1 /\ ~index.exists
          => /\ valid_cached_groups' = << >>
             /\ \A key \in DOMAIN similar_comic_cache_dict' :
                   key \in processed']_vars

\* ---------------------------------------------------------------- C28
\* Orders in which as_completed can hand the four comics to the scan.
CompletionOrders == {<<1, 2, 3, 4>>, <<4, 3, 2, 1>>, <<1, 4, 2, 3>>}

NextOrders ==
    \/ \E cfg \in Configs : \E infos \in CompletionOrders : StartDetect(cfg, infos)
    \/ SkipComic
    \/ StopBreak
    \/ CompareSource
    \/ FinishDetect
    \/ StopScan

\* The scans of Spec with the comics delivered in any of CompletionOrders.
SpecOrders == Init /\ [][NextOrders]_vars

\* The comics of S that a chain of links joins to a comic of T.
RECURSIVE LinkClosure(_, _, _)
LinkClosure(T, S, cfg) ==
    LET more == T \cup {d \in S : \E e \in T : Linked(e, d, cfg)}
    IN  IF more = T THEN T ELSE LinkClosure(more, S, cfg)

\* The connected components of the link relation over S with two comics or
\* more.
Components(S, cfg) ==
    {T \in {LinkClosure({c}, S, cfg) : c \in S} : Cardinality(T) >= 2}

\* C28: a scan that had no usable index returns one group per connected
\* component (of two comics or more) of the link relation over its valid
\* comics, with that component as its members, whatever the order in which
\* the comics were delivered.
C28_GroupsAreComponents ==
    Returned /\ NoUsableIndex =>
        /\ {Members(g) : g \in Range(duplicate_groups)}
              = Components(Range(valid_comics), config)
        /\ Len(duplicate_groups)
              = Cardinality(Components(Range(valid_comics), config))

\* A scan without usable index, its comics delivered out of catalogue order,
\* has returned a component of all four comics in which two members are not
\* linked to each other: the third source joined two groups found before.
C28_Witness ==
    /\ Returned /\ NoUsableIndex
    /\ comic_infos = <<1, 4, 2, 3>>
    /\ \E g \in Range(duplicate_groups) :
          /\ Cardinality(Members(g)) = 4
          /\ \E c, d \in Members(g) : c # d /\ ~Linked(c, d, config)

\* ---------------------------------------------------------------- C29
\* scan_directory(dir) up to "self.is_scanning = True": from here on
\* stop_scan and pause_scan act, and the two other flags still hold what the
\* scan before left in them.
BeginScan(dir, cache) ==
    /\ scan_pc = "idle"
    /\ pc = "idle"
    /\ scans < MaxRuns
    /\ scans' = scans + 1
    /\ scan_pc' = "init"
    /\ enable_cache' = cache
    /\ comic_files' = dir
    /\ futures' = << >>
    /\ outcome' = "none"
    /\ UNCHANGED <<is_paused, progress, extracted_before, cache_manager,
                   comic_infos>>
    /\ UNCHANGED detect_vars

\* scan_directory from "self.is_paused = False; self.should_stop = False" to
\* the submission of one task per comic file; an empty directory ends the
\* scan with scan_error.
InitFlags ==
    /\ scan_pc = "init"
    /\ is_paused' = FALSE
    /\ should_stop' = FALSE
    /\ IF comic_files = << >>
       THEN /\ outcome' = "error"
            /\ scan_pc' = "idle"
            /\ UNCHANGED <<futures, progress, comic_infos>>
       ELSE /\ scan_pc' = "extract"
            /\ futures' = [k \in DOMAIN comic_files |->
                             [st |-> "pending", img |-> 0, result |-> "none",
                              taken |-> FALSE]]
            /\ progress' = [processed_files |-> 0, errors |-> 0]
            /\ comic_infos' = << >>
            /\ UNCHANGED outcome
    /\ UNCHANGED <<scans, enable_cache, comic_files, extracted_before,
                   cache_manager>>
    /\ UNCHANGED <<index, pc, runs, config, valid_comics, valid_cached_groups,
                   skipped_comic_cache_keys, recall_comic_cache_keys,
                   similar_comic_cache_dict, duplicate_groups, comic_to_group_map,
                   comic_idx, valid_similar_comics, processed,
                   cached_similarity_threshold, cached_min_similar_images, stopped>>

NextInit ==
    \/ \E dir \in Directories : \E cache \in BOOLEAN : BeginScan(dir, cache)
    \/ InitFlags
    \/ \E k \in 1..3 : WorkerStart(k)
    \/ \E k \in 1..3 : WorkerImage(k)
    \/ \E k \in 1..3 : CoordTake(k)
    \/ CoordStop
    \/ ShutdownDone
    \/ ExtractStopped
    \/ \E cfg \in ScanConfigs : DetectExtracted(cfg)
    \/ SkipComic
    \/ StopBreak
    \/ CompareSource
    \/ FinishDetect
    \/ EmitCompleted
    \/ PauseScan
    \/ ResumeScan
    \/ StopScan

\* SpecScan with the start of scan_directory in two steps, so that the GUI
\* thread can call stop_scan or pause_scan between the assignment of
\* is_scanning and the assignments of the two other flags.
SpecInit == Init /\ [][NextInit]_vars

\* C29: once stop_scan has set should_stop while is_scanning is true, the
\* flag stays set until that scan ends (is_scanning is false again).
C29_StopNeverLost ==
    [][IsScanning /\ should_stop => should_stop' \/ ~IsScanning']_vars

\* The same under the start of scan_directory taken as one step.
StopKeptOnceStarted ==
    [][IsScanning /\ should_stop => should_stop' \/ ~IsScanning']_vars

\* ---------------------------------------------------------------- C30
\* set_comic_cache puts a record for comic c into the cache in this step.
Written(c) ==
    /\ cache_manager'[c] # cache_manager[c]
    /\ cache_manager'[c].memory

\* C30: a cache record is written only by a call of _process_single_comic
\* that hashed every image of the comic and saw no stop, and it holds the
\* whole fingerprint list; a call abandoned on stop returns no ComicInfo and
\* writes no record; so no record holds a truncated list.
C30_RecordOnlyWhenComplete ==
    /\ [][\A c \in CacheKeys :
             Written(c) =>
                /\ ~should_stop
                /\ cache_manager'[c].image_hashes = image_hashes(c)
                /\ \E k \in DOMAIN futures :
                      /\ comic_files[k] = c
                      /\ futures[k].st = "running"
                      /\ futures'[k].result = "info"
                      /\ futures'[k].img = Len(image_hashes(c))]_vars
    /\ [][\A k \in DOMAIN futures :
             /\ futures[k].st = "running"
             /\ k \in DOMAIN futures'
             /\ futures'[k].result = "stopped"
             => cache_manager' = cache_manager]_vars
    /\ [](\A c \in CacheKeys :
             cache_manager[c].file = "valid"
                => cache_manager[c].image_hashes = image_hashes(c))

\* One comic has its record written, and the call for another comic was
\* abandoned on stop after its first image, the cache enabled, and left no
\* record.
C30_Witness ==
    /\ enable_cache
    /\ \E c \in CacheKeys : cache_manager[c].file = "valid"
    /\ \E k \in DOMAIN futures :
          /\ futures[k].result = "stopped"
          /\ futures[k].img >= 1
          /\ cache_manager[comic_files[k]] = NoRecord

====
